---- MODULE Spec2Model ----
(***************************************************************************)
(* Approval engine of the expense-management backend.                      *)
(*                                                                         *)
(* The database tables are the state.  A request handler that runs inside  *)
(* a transaction (approveExpense, rejectExpense) is modelled statement by  *)
(* statement: PostgreSQL's default isolation level is READ COMMITTED, so   *)
(* every statement reads the rows committed so far plus the transaction's  *)
(* own uncommitted writes, an UPDATE waits while another transaction holds *)
(* an uncommitted write on the row, and the writes become visible together *)
(* at COMMIT.  Spec runs the requests one at a time; SpecConc lets up to   *)
(* MaxInFlight requests overlap.                                           *)
(***************************************************************************)
EXTENDS Integers, Sequences, FiniteSets, TLC

\* ------------------------------------------------------------------ bounds
MaxExpenses == 1
MaxInFlight == 2
MaxRules == 2
MaxApprovers == 3
MaxSequence == 3
MaxTicks == 3
MaxUploads == 2

\* --------------------------------------------------------------- constants
Users == {"e1", "m1", "m2", "a1"}
NoUser == "none"
\* JS null / undefined of a comment
Null == "null"
\* JS undefined of a numeric key of a rule configuration
Undef == -1
CascadeComment == "Rejected due to prior rejection in approval chain"
Procs == 1..MaxInFlight

VARIABLES
    users,           \* users table: id -> [role, manager_id, is_active]
    approvers,       \* approvers table: sequence of rows (id = index)
    expenses,        \* expenses table: sequence of rows (id = index)
    approvals,       \* approvals table: sequence of rows (id = index)
    approval_rules,  \* approval_rules table: sequence of rows (id = index)
    ruleTypeCheck,   \* whether the rule_type CHECK constraint of the schema is in force
    procs,           \* the requests being served: position, locals, uncommitted writes
    rateCache,       \* currencyConverter: <<from, to>> -> [rate, timestamp]
    now,             \* Date.now(), in milliseconds
    conv,            \* the last call of convertCurrency and what it did
    uploads          \* the receipt files on disk

vars == <<users, approvers, expenses, approvals, approval_rules, ruleTypeCheck, procs,
          rateCache, now, conv, uploads>>
\* What lives outside the database.
outside == <<rateCache, now, conv, uploads>>
tables == <<users, approvers, expenses, approvals, approval_rules, ruleTypeCheck, outside>>

\* ----------------------------------------------------------------- helpers
Min(S) == CHOOSE x \in S : \A y \in S : x <= y

\* The ids of a set of rows, in ascending id order.
RECURSIVE SortedIds(_)
SortedIds(S) ==
    IF S = {} THEN <<>> ELSE LET m == Min(S) IN <<m>> \o SortedIds(S \ {m})

\* res.status(code).json(...): the error kind, and the sequence number or the id
\* of the new row the body names (0 when none).
Response(code, error, detail) == [code |-> code, error |-> error, detail |-> detail]

NoResponse == Response(0, "", 0)

\* req.body and req.file of a submission: the amount in thousandths of a unit.
NoBody == [amount |-> 0, currency |-> "", file |-> FALSE]

IdleProc ==
    [pc |-> "idle", op |-> "none", id |-> 0, userId |-> NoUser, comments |-> Null,
     isFullyApproved |-> FALSE, pct |-> <<>>, cascade |-> <<>>,
     wAppr |-> {}, wExp |-> "none", resp |-> NoResponse, body |-> NoBody,
     rule |-> <<>>, approvalChain |-> <<>>, rows |-> {}]

\* comments.trim()
Trim(s) == IF s = " " THEN "" ELSE s

\* Mutant: the comment is not trimmed.
CommentMissing_NoTrim(comments) == comments = Null \/ comments = ""

\* !comments || comments.trim().length === 0
CommentMissing(comments) == comments = Null \/ comments = "" \/ Trim(comments) = ""

\* requireManagerOrAdmin on the approve / reject routes
requireManagerOrAdmin(userId) == users[userId].role \in {"manager", "admin"}

\* ------------------------------------------------- transactions and locks
\* The approvals table as transaction p reads it: the committed rows with p's
\* own uncommitted writes laid over them.
View(p) ==
    [i \in DOMAIN approvals |->
        IF \E w \in procs[p].wAppr : w.id = i
        THEN LET w == CHOOSE w \in procs[p].wAppr : w.id = i
             IN [approvals[i] EXCEPT !.status = w.status, !.comments = w.comments]
        ELSE approvals[i]]

ExpenseOf(p) == approvals[procs[p].id].expense_id

LockedApproval(q, i) == \E w \in procs[q].wAppr : w.id = i
LockedExpense(q, e) == procs[q].pc # "idle" /\ procs[q].wExp # "none" /\ ExpenseOf(q) = e

FreeApproval(p, i) == \A q \in Procs \ {p} : ~LockedApproval(q, i)
FreeExpense(p, e) == \A q \in Procs \ {p} : ~LockedExpense(q, e)

\* The transactions whose uncommitted write the next statement of p waits for.
WaitsFor(p) ==
    LET pr == procs[p] IN
    {q \in Procs \ {p} :
        \/ pr.pc \in {"a_upd", "r_upd"} /\ LockedApproval(q, pr.id)
        \/ pr.pc = "r_casc" /\ pr.cascade # <<>> /\ LockedApproval(q, Head(pr.cascade))
        \/ pr.pc = "r_exp" /\ LockedExpense(q, ExpenseOf(p))
        \/ pr.pc = "a_exp" /\ pr.isFullyApproved /\ LockedExpense(q, ExpenseOf(p))}

RECURSIVE WaitClosure(_, _)
WaitClosure(S, n) ==
    IF n = 0 THEN S
    ELSE WaitClosure(S \cup UNION {WaitsFor(q) : q \in S}, n - 1)

Deadlocked(p) == p \in WaitClosure(WaitsFor(p), MaxInFlight)

\* COMMIT: the writes of p reach the tables.
CommitApprovals(p) == View(p)
CommitExpenses(p) ==
    IF procs[p].wExp = "none" THEN expenses
    ELSE [expenses EXCEPT ![ExpenseOf(p)].status = procs[p].wExp]

\* The response is sent; the request keeps its parameters and nothing else.
Finish(p, op, id, userId, resp) ==
    procs' = [procs EXCEPT ![p] =
        [IdleProc EXCEPT !.pc = "done", !.op = op, !.id = id, !.userId = userId,
                         !.resp = resp]]

\* The connection is released and the request is over.
Return(p) ==
    /\ procs[p].pc = "done"
    /\ procs' = [procs EXCEPT ![p] = IdleProc]
    /\ UNCHANGED tables

\* ------------------------------------------------- approve / reject: checks
\* Mutant: the status of the slot is not looked at.
DecideValidation_NoSlotCheck(id, userId) ==
    IF id \notin DOMAIN approvals THEN "NotFound"
    ELSE IF approvals[id].approver_id # userId THEN "NotAssignedApprover"
    ELSE IF expenses[approvals[id].expense_id].status # "pending" THEN "ExpenseTerminated"
    ELSE "ok"

\* Mutant: a row with an earlier row that is not approved is turned down.
DecideValidation_Gated(id, userId) ==
    IF id \notin DOMAIN approvals THEN "NotFound"
    ELSE IF approvals[id].approver_id # userId THEN "NotAssignedApprover"
    ELSE IF approvals[id].status # "pending" THEN "SlotAlreadyDecided"
    ELSE IF expenses[approvals[id].expense_id].status # "pending" THEN "ExpenseTerminated"
    ELSE IF \E j \in DOMAIN approvals :
                /\ approvals[j].expense_id = approvals[id].expense_id
                /\ approvals[j].sequence < approvals[id].sequence
                /\ approvals[j].status # "approved" THEN "OutOfOrderApproval"
    ELSE "ok"

\* The checks both handlers make on the row read by their first query, in the
\* order of the code; "ok" when all pass.
DecideValidation(id, userId) ==
    IF id \notin DOMAIN approvals THEN "NotFound"
    ELSE IF approvals[id].approver_id # userId THEN "NotAssignedApprover"
    ELSE IF approvals[id].status # "pending" THEN "SlotAlreadyDecided"
    ELSE IF expenses[approvals[id].expense_id].status # "pending" THEN "ExpenseTerminated"
    ELSE "ok"

ErrorCode(error) ==
    CASE error = "NotFound" -> 404
      [] error = "NotAssignedApprover" -> 403
      [] error = "Internal" -> 500
      [] OTHER -> 400

\* Mutant: the earlier rows are not looked at.
UnapprovedPrevious_Unchecked(tbl, e, seq) == {}

\* Mutant: only a rejected earlier row blocks, a pending one does not.
UnapprovedPrevious_OnlyRejected(tbl, e, seq) ==
    {tbl[i].sequence : i \in {j \in DOMAIN tbl :
        tbl[j].expense_id = e /\ tbl[j].sequence < seq /\ tbl[j].status = "rejected"}}

\* previousApprovals.rows.filter(a => a.status !== 'approved'): the sequences of
\* the rows of expense e below seq that are not approved.
UnapprovedPrevious(tbl, e, seq) ==
    {tbl[i].sequence : i \in {j \in DOMAIN tbl :
        tbl[j].expense_id = e /\ tbl[j].sequence < seq /\ tbl[j].status # "approved"}}

\* remainingApprovals.rows.length === 0, else allApprovals.rows.every(approved)
NoneRemainingOrAllApproved(tbl, e, seq) ==
    IF {i \in DOMAIN tbl : tbl[i].expense_id = e /\ tbl[i].sequence > seq} = {}
    THEN TRUE
    ELSE \A i \in DOMAIN tbl : tbl[i].expense_id = e => tbl[i].status = "approved"

\* config.required_percentage || 100
RequiredPercentage(config) ==
    IF config.required_percentage = Undef \/ config.required_percentage = 0
    THEN 100
    ELSE config.required_percentage

\* The required percentages of the active percentage rules, in table order: the
\* only rules the loop of approveExpense acts on.
ActivePercentages(rules) ==
    LET ids == {i \in DOMAIN rules :
                   rules[i].is_active /\ rules[i].rule_type = "percentage"}
        sorted == SortedIds(ids)
    IN [k \in DOMAIN sorted |-> RequiredPercentage(rules[sorted[k]].rule_config)]

\* (approved / total) * 100 >= requiredPercentage over the rows of expense e
PercentageReached(tbl, e, required) ==
    LET total == Cardinality({i \in DOMAIN tbl : tbl[i].expense_id = e})
        approved == Cardinality({i \in DOMAIN tbl :
                        tbl[i].expense_id = e /\ tbl[i].status = "approved"})
    IN approved * 100 >= required * total

\* Mutant: the cascade reaches only the rows after the rejected one.
CascadeTargets_OnlyLater(tbl, e, id) ==
    {i \in DOMAIN tbl : tbl[i].expense_id = e /\ tbl[i].status = "pending"
                        /\ tbl[i].sequence > tbl[id].sequence}

\* WHERE expense_id = $1 AND status = 'pending' AND id != $2
CascadeTargets(tbl, e, id) ==
    {i \in DOMAIN tbl : tbl[i].expense_id = e /\ tbl[i].status = "pending" /\ i # id}

\* ------------------------------------------------------------ approveExpense
\* BEGIN, the first query and the checks on its row.
ApproveBegin(p, id, userId, comments) ==
    /\ procs[p].pc = "idle"
    /\ requireManagerOrAdmin(userId)
    /\ LET v == DecideValidation(id, userId) IN
       IF v # "ok"
       THEN Finish(p, "approve", id, userId, Response(ErrorCode(v), v, 0))
       ELSE /\ procs' = [procs EXCEPT ![p] =
                    [IdleProc EXCEPT !.pc = "a_prev", !.op = "approve", !.id = id,
                                     !.userId = userId, !.comments = comments]]
    /\ UNCHANGED tables

\* The rows below this sequence must all be approved.
ApprovePrevious(p) ==
    /\ procs[p].pc = "a_prev"
    /\ LET pr == procs[p]
           blocking == UnapprovedPrevious(View(p), ExpenseOf(p), approvals[pr.id].sequence)
       IN IF blocking # {}
          THEN Finish(p, "approve", pr.id, pr.userId,
                      Response(400, "OutOfOrderApproval", Min(blocking)))
          ELSE /\ procs' = [procs EXCEPT ![p].pc = "a_upd"]
    /\ UNCHANGED tables

\* UPDATE approvals SET status = 'approved', comments = comments || null
ApproveUpdate(p) ==
    /\ procs[p].pc = "a_upd"
    /\ FreeApproval(p, procs[p].id)
    /\ LET pr == procs[p]
           c == IF pr.comments = "" THEN Null ELSE pr.comments
       IN procs' = [procs EXCEPT ![p].pc = "a_remain",
                                 ![p].wAppr = {[id |-> pr.id, status |-> "approved",
                                                comments |-> c]}]
    /\ UNCHANGED tables

\* remainingApprovals and, when some remain, allApprovals
ApproveRemaining(p) ==
    /\ procs[p].pc = "a_remain"
    /\ procs' = [procs EXCEPT
            ![p].pc = "a_rules",
            ![p].isFullyApproved =
                NoneRemainingOrAllApproved(View(p), ExpenseOf(p),
                                           approvals[procs[p].id].sequence)]
    /\ UNCHANGED tables

\* The active rules of the company.
ApproveRules(p) ==
    /\ procs[p].pc = "a_rules"
    /\ LET pct == ActivePercentages(approval_rules) IN
       procs' = [procs EXCEPT ![p].pct = pct,
                              ![p].pc = IF pct = <<>> THEN "a_exp" ELSE "a_stats"]
    /\ UNCHANGED tables

\* One turn of the loop, for a percentage rule: approvalStats and the comparison.
ApproveStats(p) ==
    /\ procs[p].pc = "a_stats"
    /\ LET pr == procs[p]
           reached == PercentageReached(View(p), ExpenseOf(p), Head(pr.pct))
       IN procs' = [procs EXCEPT
              ![p].isFullyApproved = pr.isFullyApproved \/ reached,
              ![p].pct = Tail(pr.pct),
              ![p].pc = IF Tail(pr.pct) = <<>> THEN "a_exp" ELSE "a_stats"]
    /\ UNCHANGED tables

\* UPDATE expenses SET status = 'approved' if fully approved, else a SELECT.
ApproveExpenseRow(p) ==
    /\ procs[p].pc = "a_exp"
    /\ procs[p].isFullyApproved => FreeExpense(p, ExpenseOf(p))
    /\ procs' = [procs EXCEPT
            ![p].pc = "a_commit",
            ![p].wExp = IF procs[p].isFullyApproved THEN "approved" ELSE "none"]
    /\ UNCHANGED tables

\* COMMIT and the response.
ApproveCommit(p) ==
    /\ procs[p].pc = "a_commit"
    /\ approvals' = CommitApprovals(p)
    /\ expenses' = CommitExpenses(p)
    /\ Finish(p, "approve", procs[p].id, procs[p].userId, Response(200, "", 0))
    /\ UNCHANGED <<users, approvers, approval_rules, ruleTypeCheck, outside>>

\* ------------------------------------------------------------- rejectExpense
\* BEGIN, the comment check, the first query and the checks on its row.
RejectBegin(p, id, userId, comments) ==
    /\ procs[p].pc = "idle"
    /\ requireManagerOrAdmin(userId)
    /\ LET v == IF CommentMissing(comments) THEN "CommentRequired"
                ELSE DecideValidation(id, userId)
       IN IF v # "ok"
          THEN procs' = [procs EXCEPT ![p] =
                   [IdleProc EXCEPT !.pc = "done", !.op = "reject", !.id = id,
                                    !.userId = userId, !.comments = comments,
                                    !.resp = Response(ErrorCode(v), v, 0)]]
          ELSE /\ procs' = [procs EXCEPT ![p] =
                       [IdleProc EXCEPT !.pc = "r_upd", !.op = "reject", !.id = id,
                                        !.userId = userId, !.comments = comments]]
    /\ UNCHANGED tables

\* UPDATE approvals SET status = 'rejected', comments = $1 WHERE id = $2
RejectUpdate(p) ==
    /\ procs[p].pc = "r_upd"
    /\ FreeApproval(p, procs[p].id)
    /\ procs' = [procs EXCEPT
            ![p].pc = "r_exp",
            ![p].wAppr = {[id |-> procs[p].id, status |-> "rejected",
                           comments |-> procs[p].comments]}]
    /\ UNCHANGED tables

\* UPDATE expenses SET status = 'rejected'
RejectExpenseRow(p) ==
    /\ procs[p].pc = "r_exp"
    /\ FreeExpense(p, ExpenseOf(p))
    /\ procs' = [procs EXCEPT ![p].pc = "r_scan", ![p].wExp = "rejected"]
    /\ UNCHANGED tables

\* The cascade UPDATE starts: the rows its WHERE clause selects.
RejectCascadeScan(p) ==
    /\ procs[p].pc = "r_scan"
    /\ LET targets == SortedIds(CascadeTargets(View(p), ExpenseOf(p), procs[p].id)) IN
       procs' = [procs EXCEPT ![p].cascade = targets,
                              ![p].pc = IF targets = <<>> THEN "r_commit" ELSE "r_casc"]
    /\ UNCHANGED tables

\* The cascade UPDATE reaches its next row: it waits for the row's lock, checks
\* the WHERE clause again on the row as committed by then, and writes it.
RejectCascadeRow(p) ==
    /\ procs[p].pc = "r_casc"
    /\ LET pr == procs[p]
           i == Head(pr.cascade)
       IN /\ FreeApproval(p, i)
          /\ procs' = [procs EXCEPT
                 ![p].cascade = Tail(pr.cascade),
                 ![p].pc = IF Tail(pr.cascade) = <<>> THEN "r_commit" ELSE "r_casc",
                 ![p].wAppr =
                     IF approvals[i].status = "pending"
                     THEN pr.wAppr \cup {[id |-> i, status |-> "rejected",
                                          comments |-> CascadeComment]}
                     ELSE pr.wAppr]
    /\ UNCHANGED tables

\* COMMIT and the response.
RejectCommit(p) ==
    /\ procs[p].pc = "r_commit"
    /\ approvals' = CommitApprovals(p)
    /\ expenses' = CommitExpenses(p)
    /\ Finish(p, "reject", procs[p].id, procs[p].userId, Response(200, "", 0))
    /\ UNCHANGED <<users, approvers, approval_rules, ruleTypeCheck, outside>>

\* PostgreSQL detects a cycle of lock waits and fails the statement of one of the
\* transactions in it; the handler's catch block rolls back and answers 500.
DeadlockAbort(p) ==
    /\ procs[p].pc # "idle"
    /\ Deadlocked(p)
    /\ procs[p].pc # "done"
    /\ Finish(p, procs[p].op, procs[p].id, procs[p].userId, Response(500, "Internal", 0))
    /\ UNCHANGED tables

\* ---------------------------------------------------------- currencyConverter
Currencies == {"USD", "EUR", "JPY"}
Pairs == {pr \in Currencies \X Currencies : pr[1] # pr[2]}

\* 1 hour in milliseconds
CACHE_DURATION == 60 * 60 * 1000

\* The clock advances by half an hour at a time.
HalfHour == 30 * 60 * 1000

\* rateCache.get(cacheKey) of a key that was never set
NoEntry == [rate |-> 0, timestamp |-> -1]

\* What the exchange rate service does with a request: it answers or not, and
\* the rates of its answer, in thousandths, 0 for a currency the answer lacks.
OracleDown == [up |-> FALSE, rates |-> [pr \in Pairs |-> 0]]

Market(eurUsd, eurJpy, jpyUsd) ==
    [up |-> TRUE,
     rates |-> [pr \in Pairs |->
        CASE pr = <<"EUR", "USD">> -> eurUsd
          [] pr = <<"EUR", "JPY">> -> eurJpy
          [] pr = <<"JPY", "USD">> -> jpyUsd
          [] OTHER -> 0]]

Oracles == {OracleDown, Market(1100, 160000, 7), Market(1200, 0, 7)}

\* currency.toUpperCase()
Upper(c) == CASE c = "usd" -> "USD" [] c = "eur" -> "EUR" [] c = "jpy" -> "JPY" [] OTHER -> c

\* parseFloat((num / den).toFixed(2)), in hundredths: the nearest hundredth of
\* the double; where the quotient is a decimal half the double that stands for
\* it lies on either side.
ToFixed2(num, den) ==
    LET q == num \div den
        r == num % den
    IN IF 2 * r < den THEN {q} ELSE IF 2 * r > den THEN {q + 1} ELSE {q, q + 1}

\* A value of thousandths stored in a DECIMAL(10,2) column, in hundredths:
\* halves are rounded away from zero.
Numeric2(mills) == (mills + 5) \div 10

\* Mutant: a fetch never finds the pair in the cache.
Lookup_NoCache(cache, t, amount, from, to, oracle) ==
    LET key == <<from, to>>
        rate == IF oracle.up THEN oracle.rates[key] ELSE 0
    IN IF from = to
       THEN [ok |-> TRUE, source |-> "same", called |-> FALSE, rate |-> 1000, cache |-> cache]
       ELSE IF amount > 0 /\ rate # 0
       THEN [ok |-> TRUE, source |-> "oracle", called |-> TRUE, rate |-> rate,
             cache |-> [cache EXCEPT ![key] = [rate |-> rate, timestamp |-> t]]]
       ELSE IF cache[key] # NoEntry
       THEN [ok |-> TRUE, source |-> "stale", called |-> amount > 0,
             rate |-> cache[key].rate, cache |-> cache]
       ELSE [ok |-> FALSE, source |-> "none", called |-> amount > 0, rate |-> 0,
             cache |-> cache]

\* Mutant: an entry past its hour is not used when the service fails.
Lookup_NoStale(cache, t, amount, from, to, oracle) ==
    LET key == <<from, to>>
        fresh == cache[key] # NoEntry /\ t - cache[key].timestamp < CACHE_DURATION
        rate == IF oracle.up THEN oracle.rates[key] ELSE 0
    IN IF from = to
       THEN [ok |-> TRUE, source |-> "same", called |-> FALSE, rate |-> 1000, cache |-> cache]
       ELSE IF amount > 0 /\ fresh
       THEN [ok |-> TRUE, source |-> "cache", called |-> FALSE, rate |-> cache[key].rate,
             cache |-> cache]
       ELSE IF amount > 0 /\ rate # 0
       THEN [ok |-> TRUE, source |-> "oracle", called |-> TRUE, rate |-> rate,
             cache |-> [cache EXCEPT ![key] = [rate |-> rate, timestamp |-> t]]]
       ELSE [ok |-> FALSE, source |-> "none", called |-> amount > 0, rate |-> 0,
             cache |-> cache]

\* convertCurrency up to the rate: where the rate comes from, whether the
\* service was called, and the cache afterwards.  Equal currencies return at
\* once; a bad amount throws before the cache is read; a fresh entry is used;
\* otherwise the service is asked and the requested pair is cached; when that
\* throws, an entry of any age is used, and without one the call fails.
Lookup(cache, t, amount, from, to, oracle) ==
    LET key == <<from, to>>
        fresh == cache[key] # NoEntry /\ t - cache[key].timestamp < CACHE_DURATION
        rate == IF oracle.up THEN oracle.rates[key] ELSE 0
    IN IF from = to
       THEN [ok |-> TRUE, source |-> "same", called |-> FALSE, rate |-> 1000, cache |-> cache]
       ELSE IF amount > 0 /\ fresh
       THEN [ok |-> TRUE, source |-> "cache", called |-> FALSE, rate |-> cache[key].rate,
             cache |-> cache]
       ELSE IF amount > 0 /\ rate # 0
       THEN [ok |-> TRUE, source |-> "oracle", called |-> TRUE, rate |-> rate,
             cache |-> [cache EXCEPT ![key] = [rate |-> rate, timestamp |-> t]]]
       ELSE IF cache[key] # NoEntry
       THEN [ok |-> TRUE, source |-> "stale", called |-> amount > 0,
             rate |-> cache[key].rate, cache |-> cache]
       ELSE [ok |-> FALSE, source |-> "none", called |-> amount > 0, rate |-> 0,
             cache |-> cache]

\* The amounts, in hundredths, a successful lookup can return for an amount in
\* thousandths.
Converted(c, amount) ==
    IF c.source = "same" THEN ToFixed2(amount, 10) ELSE ToFixed2(amount * c.rate, 10000)

\* No call of convertCurrency yet.
NoConv ==
    [from |-> "", to |-> "", amount |-> 0, ok |-> FALSE, called |-> FALSE,
     response |-> {}, source |-> "none", cents |-> 0]

\* The record of a call: its arguments, whether the service was called and the
\* currencies its answer had rates for, and the outcome.
Called(c, amount, from, to, cents, oracle) ==
    [from |-> from, to |-> to, amount |-> amount, ok |-> c.ok, called |-> c.called,
     response |-> IF c.called /\ oracle.up
                  THEN {z \in Currencies \ {from} : oracle.rates[<<from, z>>] # 0}
                  ELSE {},
     source |-> c.source, cents |-> cents]

\* A call of convertCurrency.
ConvertCurrency(amount, from, to, oracle) ==
    LET c == Lookup(rateCache, now, amount, from, to, oracle) IN
    /\ \E cents \in (IF c.ok THEN Converted(c, amount) ELSE {0}) :
         conv' = Called(c, amount, from, to, cents, oracle)
    /\ rateCache' = c.cache
    /\ UNCHANGED <<users, approvers, expenses, approvals, approval_rules, ruleTypeCheck,
                   procs, now, uploads>>

\* Time passes.
Tick ==
    /\ now' = now + HalfHour
    /\ UNCHANGED <<users, approvers, expenses, approvals, approval_rules, ruleTypeCheck,
                   procs, rateCache, conv, uploads>>

\* ------------------------------------------------------------- submitExpense
\* Mutant: the active rows in any order.
SequenceOrders_AnyOrder(rows) ==
    LET ids == {i \in DOMAIN rows : rows[i].is_active}
        n == Cardinality(ids)
    IN {o \in [1..n -> ids] : \A k, l \in 1..n : k # l => o[k] # o[l]}

\* The orders in which the query for the additional approvers can return the
\* ids of the active approvers rows: ORDER BY a.sequence ASC, rows of equal
\* sequence in an order the database chooses.
SequenceOrders(rows) ==
    LET ids == {i \in DOMAIN rows : rows[i].is_active}
        n == Cardinality(ids)
    IN {o \in [1..n -> ids] :
            /\ \A k, l \in 1..n : k # l => o[k] # o[l]
            /\ \A k, l \in 1..n : k < l => rows[o[k]].sequence <= rows[o[l]].sequence}

\* Mutant: a row of the manager is not skipped.
ChainApprovers_NoSkip(managerId, rows, order) ==
    (IF managerId # NoUser THEN <<managerId>> ELSE <<>>)
        \o [k \in DOMAIN order |-> rows[order[k]].user_id]

\* The approvers of a new expense, in chain order: the submitter's manager, if
\* any, then the users of the active approvers rows in the order the query
\* returned them, a row of the manager skipped.
ChainApprovers(managerId, rows, order) ==
    LET additional == SelectSeq([k \in DOMAIN order |-> rows[order[k]].user_id],
                                LAMBDA u : u # managerId)
    IN (IF managerId # NoUser THEN <<managerId>> ELSE <<>>) \o additional

\* Mutant: the counter is not advanced after the first insert.
ChainRows_StuckCounter(e, chain) ==
    [k \in DOMAIN chain |->
        [expense_id |-> e, approver_id |-> chain[k],
         sequence |-> IF k <= 2 THEN 1 ELSE k - 1,
         status |-> "pending", comments |-> Null]]

\* Mutant: the rows are inserted for the first expense.
ChainRows_FirstExpense(e, chain) ==
    [k \in DOMAIN chain |->
        [expense_id |-> 1, approver_id |-> chain[k], sequence |-> k,
         status |-> "pending", comments |-> Null]]

\* The approvals rows inserted for expense e: the counter "sequence" starts at 1
\* and grows by one with every insert.
ChainRows(e, chain) ==
    [k \in DOMAIN chain |->
        [expense_id |-> e, approver_id |-> chain[k], sequence |-> k,
         status |-> "pending", comments |-> Null]]

\* Mutant: an expense without approvers of a submitter who is not an admin is
\* turned down at once.
InitialStatus_RejectEmpty(chain, role) ==
    IF chain = <<>> THEN (IF role = "admin" THEN "approved" ELSE "rejected") ELSE "pending"

\* Mutant: every expense without approvers is approved at once.
InitialStatus_AnyRole(chain, role) ==
    IF chain = <<>> THEN "approved" ELSE "pending"

\* approvalChain.length === 0 && req.user.role === 'admin'
InitialStatus(chain, role) ==
    IF chain = <<>> /\ role = "admin" THEN "approved" ELSE "pending"

\* companies.currency of the one company
CompanyCurrency == "USD"

\* The row inserted into expenses: amounts in hundredths, receipt_url the name of
\* the uploaded file, 0 without one.
ExpenseRow(userId, status, cents, amount, currency, receipt) ==
    [user_id |-> userId, status |-> status, amount |-> cents,
     original_amount |-> Numeric2(amount), original_currency |-> Upper(currency),
     receipt_url |-> receipt]

\* POST /api/expenses.  multer has stored the receipt, if any, before the handler
\* runs.  fault tells whether a query fails, and where: "beforeCommit" between
\* the insert of the expense and COMMIT, "afterCommit" in the query that follows
\* COMMIT.
SubmitExpense(p, userId, amount, currency, file, oracle, fault) ==
    /\ procs[p].pc = "idle"
    /\ \E order \in SequenceOrders(approvers) :
       LET e == Len(expenses) + 1
           name == Len(uploads) + 1
           stored == IF file THEN Append(uploads, TRUE) ELSE uploads
           unlinked == IF file THEN Append(uploads, FALSE) ELSE uploads
           c == Lookup(rateCache, now, amount, Upper(currency), CompanyCurrency, oracle)
           chain == ChainApprovers(users[userId].manager_id, approvers, order)
           answer(id, resp) ==
               procs' = [procs EXCEPT ![p] =
                   [IdleProc EXCEPT !.pc = "done", !.op = "submit", !.id = id,
                                    !.userId = userId, !.resp = resp,
                                    !.body = [amount |-> amount, currency |-> currency,
                                              file |-> file]]]
       IN IF amount <= 0
          THEN /\ answer(0, Response(400, "ValidationFailed", 0))
               /\ uploads' = stored
               /\ UNCHANGED <<expenses, approvals, rateCache, conv>>
          ELSE \E cents \in (IF c.ok THEN Converted(c, amount) ELSE {0}) :
               /\ conv' = Called(c, amount, Upper(currency), CompanyCurrency, cents,
                                oracle)
               /\ rateCache' = c.cache
               /\ IF ~c.ok
                  THEN /\ answer(0, Response(400, "CurrencyUnavailable", 0))
                       /\ uploads' = stored
                       /\ UNCHANGED <<expenses, approvals>>
                  ELSE IF fault = "beforeCommit"
                  THEN /\ answer(0, Response(500, "Internal", 0))
                       /\ uploads' = unlinked
                       /\ UNCHANGED <<expenses, approvals>>
                  ELSE /\ expenses' = Append(expenses,
                              ExpenseRow(userId, InitialStatus(chain, users[userId].role),
                                         cents, amount, currency,
                                         IF file THEN name ELSE 0))
                       /\ approvals' = approvals \o ChainRows(e, chain)
                       /\ IF fault = "afterCommit"
                          THEN /\ answer(e, Response(500, "Internal", 0))
                               /\ uploads' = unlinked
                          ELSE /\ answer(e, Response(201, "", 0))
                               /\ uploads' = stored
    /\ UNCHANGED <<users, approvers, approval_rules, ruleTypeCheck, now>>

\* A submission of 12.50 in the company's currency, without a receipt, that no
\* failure disturbs.
PlainSubmit(p, userId) ==
    /\ Len(expenses) < MaxExpenses
    /\ SubmitExpense(p, userId, 12500, "USD", FALSE, OracleDown, "none")

\* ----------------------------------------------------------- setApprovalRule
EmptyConfig ==
    [percentage |-> Undef, total_approvers |-> Undef, required_percentage |-> Undef,
     approver_id |-> NoUser, special_approver_id |-> NoUser]

\* The rule types the controller accepts.
validRuleTypes ==
    {"percentage", "specific_approver", "hybrid", "amount_threshold", "category_based",
     "role_based"}

\* The rule types the CHECK constraint of the approval_rules table accepts.
SchemaRuleTypes == {"amount_threshold", "category_based", "role_based"}

\* The checks of the configuration, in the order of the code; "ok" when all pass.
RuleValidation(ruleType, c) ==
    IF ruleType \notin validRuleTypes THEN "ValidationFailed"
    ELSE IF ruleType = "percentage"
            /\ (c.percentage = Undef \/ c.total_approvers = Undef) THEN "ValidationFailed"
    ELSE IF ruleType = "percentage"
            /\ (c.percentage < 1 \/ c.percentage > 100) THEN "ValidationFailed"
    ELSE IF ruleType = "percentage" /\ c.total_approvers < 1 THEN "ValidationFailed"
    ELSE IF ruleType = "specific_approver" /\ c.approver_id = NoUser THEN "ValidationFailed"
    ELSE IF ruleType = "specific_approver" /\ c.approver_id \notin Users THEN "NotFound"
    ELSE IF ruleType = "hybrid"
            /\ (c.percentage \in {Undef, 0} \/ c.total_approvers \in {Undef, 0}
                \/ c.special_approver_id = NoUser) THEN "ValidationFailed"
    ELSE IF ruleType = "hybrid" /\ c.special_approver_id \notin Users THEN "NotFound"
    ELSE "ok"

\* The rows the existingRule query returns.
ExistingRules(rules, ruleType) ==
    {i \in DOMAIN rules : rules[i].is_active /\ rules[i].rule_type = ruleType}

\* The table after existingRule.rows[0], if any, is deactivated.
Deactivated(rules, victim) ==
    IF victim = 0 THEN rules ELSE [rules EXCEPT ![victim].is_active = FALSE]

SetApprovalRule(p, ruleType, ruleConfig) ==
    /\ procs[p].pc = "idle"
    /\ Len(approval_rules) < MaxRules
    /\ LET v == RuleValidation(ruleType, ruleConfig)
           existing == ExistingRules(approval_rules, ruleType)
       IN IF v # "ok"
          THEN /\ Finish(p, "setRule", 0, NoUser, Response(ErrorCode(v), v, 0))
               /\ UNCHANGED approval_rules
          ELSE \E victim \in (IF existing = {} THEN {0} ELSE existing) :
               IF ruleTypeCheck /\ ruleType \notin SchemaRuleTypes
               THEN \* the INSERT violates the constraint and throws
                    /\ approval_rules' = Deactivated(approval_rules, victim)
                    /\ Finish(p, "setRule", 0, NoUser, Response(500, "Internal", 0))
               ELSE /\ approval_rules' = Append(Deactivated(approval_rules, victim),
                           [rule_type |-> ruleType, rule_config |-> ruleConfig,
                            is_active |-> TRUE])
                    /\ Finish(p, "setRule", Len(approval_rules) + 1, NoUser,
                              Response(201, "", 0))
    /\ UNCHANGED <<users, approvers, expenses, approvals, ruleTypeCheck, outside>>

\* setApprovalRule statement by statement; every statement commits by itself.
\* The request is validated and the existingRule query runs.
SetRuleExisting(p, ruleType, ruleConfig) ==
    /\ procs[p].pc = "idle"
    /\ LET v == RuleValidation(ruleType, ruleConfig)
           existing == ExistingRules(approval_rules, ruleType)
       IN IF v # "ok"
          THEN Finish(p, "setRule", 0, NoUser, Response(ErrorCode(v), v, 0))
          ELSE \E victim \in (IF existing = {} THEN {0} ELSE existing) :
               procs' = [procs EXCEPT ![p] =
                   [IdleProc EXCEPT !.pc = IF victim = 0 THEN "ruleInsert"
                                           ELSE "ruleDeactivate",
                                    !.op = "setRule", !.id = victim,
                                    !.rule = <<ruleType, ruleConfig>>]]
    /\ UNCHANGED tables

\* UPDATE approval_rules SET is_active = false WHERE id = existingRule.rows[0].id
SetRuleDeactivate(p) ==
    /\ procs[p].pc = "ruleDeactivate"
    /\ approval_rules' = Deactivated(approval_rules, procs[p].id)
    /\ procs' = [procs EXCEPT ![p].pc = "ruleInsert"]
    /\ UNCHANGED <<users, approvers, expenses, approvals, ruleTypeCheck, outside>>

\* INSERT INTO approval_rules
SetRuleInsert(p) ==
    /\ procs[p].pc = "ruleInsert"
    /\ IF ruleTypeCheck /\ procs[p].rule[1] \notin SchemaRuleTypes
       THEN /\ Finish(p, "setRule", 0, NoUser, Response(500, "Internal", 0))
            /\ UNCHANGED approval_rules
       ELSE /\ approval_rules' = Append(approval_rules,
                   [rule_type |-> procs[p].rule[1], rule_config |-> procs[p].rule[2],
                    is_active |-> TRUE])
            /\ Finish(p, "setRule", Len(approval_rules) + 1, NoUser, Response(201, "", 0))
    /\ UNCHANGED <<users, approvers, expenses, approvals, ruleTypeCheck, outside>>

\* --------------------------------------------------- approver configuration
ApproverRow(userId, roleName, sequence, active) ==
    [user_id |-> userId, role_name |-> roleName, sequence |-> sequence,
     is_active |-> active]

RoleNames == {"finance", "ceo", "legal"}

\* UNIQUE (company_id, role_name, sequence) of the approvers table: writing
\* roleName and sequence into row id (0 for a new row) collides with another row.
UniqueViolation(rows, id, roleName, sequence) ==
    \E j \in DOMAIN rows :
        j # id /\ rows[j].role_name = roleName /\ rows[j].sequence = sequence

\* The checks of addApprover, in the order of the code; "ok" when all pass.
AddApproverValidation(rows, userId, roleName, sequence) ==
    IF sequence < 1 THEN "InvalidSequence"
    ELSE IF userId \notin Users THEN "NotFound"
    ELSE IF ~users[userId].is_active THEN "UserInactive"
    ELSE IF users[userId].role \notin {"manager", "admin"} THEN "InvalidUserRole"
    ELSE IF \E i \in DOMAIN rows : /\ rows[i].user_id = userId
                                    /\ rows[i].role_name = roleName
                                    /\ rows[i].is_active THEN "ApproverExists"
    ELSE IF \E i \in DOMAIN rows : rows[i].sequence = sequence /\ rows[i].is_active
         THEN "SequenceConflict"
    ELSE "ok"

AddApprover(p, userId, roleName, sequence) ==
    /\ procs[p].pc = "idle"
    /\ Len(approvers) < MaxApprovers
    /\ LET v == AddApproverValidation(approvers, userId, roleName, sequence) IN
       IF v # "ok"
       THEN /\ Finish(p, "addApprover", 0, NoUser, Response(ErrorCode(v), v, 0))
            /\ UNCHANGED approvers
       ELSE IF UniqueViolation(approvers, 0, roleName, sequence)
       THEN \* the INSERT violates the constraint and throws
            /\ Finish(p, "addApprover", 0, NoUser, Response(500, "Internal", 0))
            /\ UNCHANGED approvers
       ELSE /\ approvers' = Append(approvers, ApproverRow(userId, roleName, sequence, TRUE))
            /\ Finish(p, "addApprover", Len(approvers) + 1, NoUser, Response(201, "", 0))
    /\ UNCHANGED <<users, expenses, approvals, approval_rules, ruleTypeCheck, outside>>

\* The rows the conflict query of updateApproverSequence returns.
SequenceConflicts(rows, id, sequence) ==
    {i \in DOMAIN rows : rows[i].sequence = sequence /\ i # id /\ rows[i].is_active}

\* The table after the swap UPDATE of the conflicting row, 0 for none.
Swapped(rows, conflicting, oldSequence) ==
    IF conflicting = 0 THEN rows ELSE [rows EXCEPT ![conflicting].sequence = oldSequence]

UpdateApproverSequence(p, id, newSequence) ==
    /\ procs[p].pc = "idle"
    /\ IF newSequence < 1
       THEN /\ Finish(p, "updateSequence", id, NoUser, Response(400, "InvalidSequence", 0))
            /\ UNCHANGED approvers
       ELSE IF id \notin DOMAIN approvers
       THEN /\ Finish(p, "updateSequence", id, NoUser, Response(404, "NotFound", 0))
            /\ UNCHANGED approvers
       ELSE IF approvers[id].sequence = newSequence
       THEN /\ Finish(p, "updateSequence", id, NoUser, Response(200, "Unchanged", 0))
            /\ UNCHANGED approvers
       ELSE LET oldSequence == approvers[id].sequence
                conflicts == SequenceConflicts(approvers, id, newSequence)
            IN \E c \in (IF conflicts = {} THEN {0} ELSE conflicts) :
               LET swapped == Swapped(approvers, c, oldSequence) IN
               IF \/ c # 0 /\ UniqueViolation(approvers, c, approvers[c].role_name,
                                               oldSequence)
                  \/ UniqueViolation(swapped, id, approvers[id].role_name, newSequence)
               THEN \* an UPDATE violates the constraint: ROLLBACK, 500
                    /\ Finish(p, "updateSequence", id, NoUser,
                              Response(500, "Internal", 0))
                    /\ UNCHANGED approvers
               ELSE /\ approvers' = [swapped EXCEPT ![id].sequence = newSequence]
                    /\ Finish(p, "updateSequence", id, NoUser, Response(200, "", c))
    /\ UNCHANGED <<users, expenses, approvals, approval_rules, ruleTypeCheck, outside>>

\* COUNT(*) FROM approvals WHERE approver_id = $1 AND status = 'pending'
PendingCount(tbl, userId) ==
    Cardinality({i \in DOMAIN tbl : tbl[i].approver_id = userId
                                    /\ tbl[i].status = "pending"})

RemoveApprover(p, id) ==
    /\ procs[p].pc = "idle"
    /\ IF id \notin DOMAIN approvers
       THEN /\ Finish(p, "removeApprover", id, NoUser, Response(404, "NotFound", 0))
            /\ UNCHANGED approvers
       ELSE IF PendingCount(approvals, approvers[id].user_id) > 0
       THEN /\ Finish(p, "removeApprover", id, NoUser,
                      Response(400, "HasPendingApprovals", 0))
            /\ UNCHANGED approvers
       ELSE /\ approvers' = [approvers EXCEPT ![id].is_active = FALSE]
            /\ Finish(p, "removeApprover", id, NoUser, Response(200, "", 0))
    /\ UNCHANGED <<users, expenses, approvals, approval_rules, ruleTypeCheck, outside>>

\* removeApprover statement by statement; every statement commits by itself.
\* The row is looked up and the pending approvals of its user are counted.
RemoveCount(p, id) ==
    /\ procs[p].pc = "idle"
    /\ IF id \notin DOMAIN approvers
       THEN Finish(p, "removeApprover", id, NoUser, Response(404, "NotFound", 0))
       ELSE IF PendingCount(approvals, approvers[id].user_id) > 0
       THEN Finish(p, "removeApprover", id, NoUser,
                   Response(400, "HasPendingApprovals", 0))
       ELSE procs' = [procs EXCEPT ![p] =
                [IdleProc EXCEPT !.pc = "removeUpdate", !.op = "removeApprover",
                                 !.id = id]]
    /\ UNCHANGED tables

\* UPDATE approvers SET is_active = false WHERE id = $1
RemoveUpdate(p) ==
    /\ procs[p].pc = "removeUpdate"
    /\ approvers' = [approvers EXCEPT ![procs[p].id].is_active = FALSE]
    /\ Finish(p, "removeApprover", procs[p].id, NoUser, Response(200, "", 0))
    /\ UNCHANGED <<users, expenses, approvals, approval_rules, ruleTypeCheck, outside>>

\* submitExpense in two steps, for a request of 12.50 in the company's currency
\* without a receipt: the transaction up to the query for the additional
\* approvers, whose rows it keeps ...
SubmitChain(p, userId) ==
    /\ procs[p].pc = "idle"
    /\ \E order \in SequenceOrders(approvers) :
       LET c == Lookup(rateCache, now, 12500, "USD", CompanyCurrency, OracleDown) IN
       /\ conv' = Called(c, 12500, "USD", CompanyCurrency, 1250, OracleDown)
       /\ procs' = [procs EXCEPT ![p] =
             [IdleProc EXCEPT !.pc = "submitCommit", !.op = "submit", !.userId = userId,
                              !.body = [amount |-> 12500, currency |-> "USD",
                                        file |-> FALSE],
                              !.approvalChain =
                                  ChainApprovers(users[userId].manager_id, approvers,
                                                 order)]]
    /\ UNCHANGED <<users, approvers, expenses, approvals, approval_rules, ruleTypeCheck,
                   rateCache, now, uploads>>

\* ... and the inserts and COMMIT, with which its rows become visible to others.
SubmitCommit(p) ==
    /\ procs[p].pc = "submitCommit"
    /\ LET e == Len(expenses) + 1
           chain == procs[p].approvalChain
       IN /\ expenses' = Append(expenses,
                 ExpenseRow(procs[p].userId,
                            InitialStatus(chain, users[procs[p].userId].role),
                            1250, 12500, "USD", 0))
          /\ approvals' = approvals \o ChainRows(e, chain)
          /\ procs' = [procs EXCEPT ![p] =
                [IdleProc EXCEPT !.pc = "done", !.op = "submit", !.id = e,
                                 !.userId = procs[p].userId, !.body = procs[p].body,
                                 !.resp = Response(201, "", 0)]]
    /\ UNCHANGED <<users, approvers, approval_rules, ruleTypeCheck, outside>>

\* ---------------------------------------------------------- user management
\* requireAdmin on the user routes
requireAdmin(userId) == users[userId].role = "admin"

validRoles == {"employee", "manager", "admin"}

\* PUT /api/users/:id/role
UpdateUserRole(p, actor, id, newRole) ==
    /\ procs[p].pc = "idle"
    /\ requireAdmin(actor)
    /\ IF newRole \notin validRoles
       THEN /\ Finish(p, "updateRole", 0, id, Response(400, "InvalidRole", 0))
            /\ UNCHANGED users
       ELSE IF id = actor
       THEN /\ Finish(p, "updateRole", 0, id, Response(403, "OwnRole", 0))
            /\ UNCHANGED users
       ELSE IF id \notin Users
       THEN /\ Finish(p, "updateRole", 0, id, Response(404, "NotFound", 0))
            /\ UNCHANGED users
       ELSE /\ users' = [users EXCEPT ![id].role = newRole]
            /\ Finish(p, "updateRole", 0, id, Response(200, "", 0))
    /\ UNCHANGED <<approvers, expenses, approvals, approval_rules, ruleTypeCheck, outside>>

\* The checks of assignManager, in the order of the code; "ok" when all pass.
\* The circular check looks at the manager of the new manager, one link.
AssignManagerValidation(id, managerId) ==
    IF managerId = NoUser THEN "ValidationFailed"
    ELSE IF id = managerId THEN "SelfManager"
    ELSE IF id \notin Users THEN "NotFound"
    ELSE IF managerId \notin Users \/ ~users[managerId].is_active THEN "NotFound"
    ELSE IF users[managerId].role \notin {"manager", "admin"} THEN "InvalidManagerRole"
    ELSE IF users[managerId].manager_id = id THEN "CircularReference"
    ELSE "ok"

\* PUT /api/users/:id/manager
AssignManager(p, actor, id, managerId) ==
    /\ procs[p].pc = "idle"
    /\ requireAdmin(actor)
    /\ LET v == AssignManagerValidation(id, managerId) IN
       IF v # "ok"
       THEN /\ Finish(p, "assignManager", 0, id, Response(ErrorCode(v), v, 0))
            /\ UNCHANGED users
       ELSE /\ users' = [users EXCEPT ![id].manager_id = managerId]
            /\ Finish(p, "assignManager", 0, id, Response(200, "", 0))
    /\ UNCHANGED <<approvers, expenses, approvals, approval_rules, ruleTypeCheck, outside>>

\* DELETE /api/users/:id
DeleteUser(p, actor, id) ==
    /\ procs[p].pc = "idle"
    /\ requireAdmin(actor)
    /\ IF id = actor
       THEN /\ Finish(p, "deleteUser", 0, id, Response(400, "OwnAccount", 0))
            /\ UNCHANGED users
       ELSE IF id \notin Users
       THEN /\ Finish(p, "deleteUser", 0, id, Response(404, "NotFound", 0))
            /\ UNCHANGED users
       ELSE /\ users' = [users EXCEPT ![id].is_active = FALSE]
            /\ Finish(p, "deleteUser", 0, id, Response(200, "", 0))
    /\ UNCHANGED <<approvers, expenses, approvals, approval_rules, ruleTypeCheck, outside>>

\* ------------------------------------------------------------ read requests
\* The blocking_approvals column of getPendingApprovals for approvals row i.
blocking_approvals(i) ==
    Cardinality({j \in DOMAIN approvals :
                    /\ approvals[j].expense_id = approvals[i].expense_id
                    /\ approvals[j].sequence < approvals[i].sequence
                    /\ approvals[j].status # "approved"})

\* Mutant: the rows are not filtered by blocking_approvals.
availableApprovals_Unfiltered(userId) ==
    {i \in DOMAIN approvals :
        /\ approvals[i].approver_id = userId
        /\ approvals[i].status = "pending"
        /\ expenses[approvals[i].expense_id].status = "pending"}

\* Mutant: the status of the expense is not looked at.
availableApprovals_AnyExpense(userId) ==
    {i \in DOMAIN approvals :
        /\ approvals[i].approver_id = userId
        /\ approvals[i].status = "pending"
        /\ blocking_approvals(i) = 0}

\* The ids of the rows getPendingApprovals keeps: the rows of its query, those
\* with blocking approvals filtered out.
availableApprovals(userId) ==
    {i \in DOMAIN approvals :
        /\ approvals[i].approver_id = userId
        /\ approvals[i].status = "pending"
        /\ expenses[approvals[i].expense_id].status = "pending"
        /\ blocking_approvals(i) = 0}

\* GET /api/approvals/pending
GetPendingApprovals(p, userId) ==
    /\ procs[p].pc = "idle"
    /\ requireManagerOrAdmin(userId)
    /\ procs' = [procs EXCEPT ![p] =
          [IdleProc EXCEPT !.pc = "done", !.op = "getPending", !.userId = userId,
                           !.resp = Response(200, "", 0),
                           !.rows = availableApprovals(userId)]]
    /\ UNCHANGED tables

\* teamCheck of both handlers: the submitter reports to the user.
teamCheck(userId, e) == users[expenses[e].user_id].manager_id = userId

\* approverCheck of getApprovalHistory: the user has an approvals row of the expense.
approverCheck(userId, e) ==
    \E i \in DOMAIN approvals :
        approvals[i].expense_id = e /\ approvals[i].approver_id = userId

\* hasAccess of getExpenseById (one company).
ExpenseAccess(userId, e) ==
    IF users[userId].role = "admin" THEN TRUE
    ELSE IF users[userId].role = "manager"
    THEN teamCheck(userId, e) \/ expenses[e].user_id = userId
    ELSE expenses[e].user_id = userId

\* hasAccess of getApprovalHistory (one company).
HistoryAccess(userId, e) ==
    IF users[userId].role = "admin" THEN TRUE
    ELSE IF users[userId].role = "manager"
    THEN teamCheck(userId, e) \/ approverCheck(userId, e) \/ expenses[e].user_id = userId
    ELSE expenses[e].user_id = userId

\* The answer of a handler that looks an expense up and checks the access.
ReadAnswer(e, access) ==
    IF e \notin DOMAIN expenses THEN Response(404, "NotFound", 0)
    ELSE IF ~access THEN Response(403, "AccessDenied", 0)
    ELSE Response(200, "", 0)

\* GET /api/expenses/:id
GetExpenseById(p, userId, e) ==
    /\ procs[p].pc = "idle"
    /\ Finish(p, "getExpense", e, userId,
              ReadAnswer(e, e \in DOMAIN expenses /\ ExpenseAccess(userId, e)))
    /\ UNCHANGED tables

\* GET /api/approvals/expense/:expenseId
GetApprovalHistory(p, userId, e) ==
    /\ procs[p].pc = "idle"
    /\ Finish(p, "getHistory", e, userId,
              ReadAnswer(e, e \in DOMAIN expenses /\ HistoryAccess(userId, e)))
    /\ UNCHANGED tables

\* ------------------------------------------------------------ initial states
UsersTable(managerOfE1) ==
    [u \in Users |->
        [role |-> CASE u = "e1" -> "employee" [] u = "a1" -> "admin" [] OTHER -> "manager",
         manager_id |-> IF u = "e1" THEN managerOfE1 ELSE NoUser,
         is_active |-> TRUE]]

\* Rosters an admin can have configured: none; finance then CEO; the manager and
\* the admin (the sample data of the schema); rows added out of order, with a
\* gap and a removed row.
Rosters ==
    { <<>>,
      <<ApproverRow("m2", "finance", 1, TRUE), ApproverRow("a1", "ceo", 2, TRUE)>>,
      <<ApproverRow("m1", "manager", 1, TRUE), ApproverRow("a1", "admin", 2, TRUE)>>,
      <<ApproverRow("a1", "ceo", 4, TRUE), ApproverRow("m1", "old", 2, FALSE),
        ApproverRow("m2", "finance", 1, TRUE)>> }

Init ==
    /\ users \in {UsersTable(m) : m \in {NoUser, "m1"}}
    /\ approvers \in Rosters
    /\ expenses = <<>>
    /\ approvals = <<>>
    /\ approval_rules = <<>>
    /\ ruleTypeCheck \in BOOLEAN
    /\ procs = [p \in Procs |-> IdleProc]
    /\ rateCache = [pr \in Pairs |-> NoEntry]
    /\ now = 0
    /\ conv = NoConv
    /\ uploads = <<>>

\* ---------------------------------------------------------------- requests
ApproveComments == {Null, "ok"}
RejectComments == {Null, " ", "missing receipt"}

RuleInputs ==
    { [ruleType |-> "percentage",
       ruleConfig |-> [EmptyConfig EXCEPT !.percentage = 50, !.total_approvers = 2]],
      [ruleType |-> "percentage",
       ruleConfig |-> [EmptyConfig EXCEPT !.percentage = 50, !.total_approvers = 2,
                                          !.required_percentage = 50]],
      [ruleType |-> "percentage",
       ruleConfig |-> [EmptyConfig EXCEPT !.percentage = 0, !.total_approvers = 2]],
      [ruleType |-> "specific_approver",
       ruleConfig |-> [EmptyConfig EXCEPT !.approver_id = "m1"]],
      [ruleType |-> "hybrid",
       ruleConfig |-> [EmptyConfig EXCEPT !.percentage = 50, !.total_approvers = 2,
                                          !.special_approver_id = "m1"]],
      [ruleType |-> "amount_threshold", ruleConfig |-> EmptyConfig] }

\* The ids a request can name: every row, and one that does not exist.
RequestIds == 1..(Len(approvals) + 1)

Begin(p) ==
    \/ \E id \in RequestIds, u \in Users, c \in ApproveComments : ApproveBegin(p, id, u, c)
    \/ \E id \in RequestIds, u \in Users, c \in RejectComments : RejectBegin(p, id, u, c)

Step(p) ==
    \/ ApprovePrevious(p)
    \/ ApproveUpdate(p)
    \/ ApproveRemaining(p)
    \/ ApproveRules(p)
    \/ ApproveStats(p)
    \/ ApproveExpenseRow(p)
    \/ ApproveCommit(p)
    \/ RejectUpdate(p)
    \/ RejectExpenseRow(p)
    \/ RejectCascadeScan(p)
    \/ RejectCascadeRow(p)
    \/ RejectCommit(p)
    \/ Return(p)

\* Requests served one at a time.
Next ==
    \/ \E u \in Users : PlainSubmit(1, u)
    \/ \E r \in RuleInputs : SetApprovalRule(1, r.ruleType, r.ruleConfig)
    \/ Begin(1)
    \/ Step(1)

Spec == Init /\ [][Next]_vars

\* ------------------------------------------------------ overlapping requests
\* A percentage rule as the approval guide documents it.
GuideRule ==
    [rule_type |-> "percentage",
     rule_config |-> [EmptyConfig EXCEPT !.required_percentage = 50],
     is_active |-> TRUE]

\* One expense of e1, whose manager is m1, has been submitted and waits for its
\* approvers: m1 alone, or m1, m2 and a1.
InitConc ==
    /\ users = UsersTable("m1")
    /\ approvers \in {r \in Rosters : \A i \in DOMAIN r : r[i].sequence = i}
    /\ \E order \in SequenceOrders(approvers) :
        LET chain == ChainApprovers("m1", approvers, order) IN
        /\ expenses = <<ExpenseRow("e1", InitialStatus(chain, "employee"), 1250, 12500,
                                   "USD", 0)>>
        /\ approvals = ChainRows(1, chain)
    /\ ruleTypeCheck = FALSE
    /\ approval_rules \in {<<>>, <<GuideRule>>}
    /\ procs = [p \in Procs |-> IdleProc]
    /\ rateCache = [pr \in Pairs |-> NoEntry]
    /\ now = 0
    /\ conv = NoConv
    /\ uploads = <<>>

\* Approve and reject requests served concurrently.
NextConc ==
    \E p \in Procs :
        \/ Begin(p)
        \/ Step(p)
        \/ DeadlockAbort(p)

SpecConc == InitConc /\ [][NextConc]_vars

\* ----------------------------------------------------- configuration runs
\* No approver is configured yet; e1 reports to m1, the others to nobody.
InitConfig ==
    /\ users = UsersTable("m1")
    /\ approvers = <<>>
    /\ expenses = <<>>
    /\ approvals = <<>>
    /\ approval_rules = <<>>
    /\ ruleTypeCheck = TRUE
    /\ procs = [p \in Procs |-> IdleProc]
    /\ rateCache = [pr \in Pairs |-> NoEntry]
    /\ now = 0
    /\ conv = NoConv
    /\ uploads = <<>>

\* The users the admin tries as approvers.
ApproverUsers == {"e1", "m1", "m2"}

\* The admin configures the approvers, then users submit expenses; an approver
\* can be removed at any time.  One request at a time.
NextConfig ==
    \/ /\ expenses = <<>>
       /\ \E u \in ApproverUsers, r \in RoleNames, s \in 0..MaxSequence :
            AddApprover(1, u, r, s)
    \/ /\ expenses = <<>>
       /\ \E id \in 1..(Len(approvers) + 1), s \in 0..MaxSequence :
            UpdateApproverSequence(1, id, s)
    \/ \E id \in 1..(Len(approvers) + 1) : RemoveApprover(1, id)
    \/ \E u \in Users : PlainSubmit(1, u)
    \/ Return(1)

SpecConfig == InitConfig /\ [][NextConfig]_vars

\* ------------------------------------------------ expenses without approvers
\* Nobody has a manager and no approver is configured; the table of the rules
\* takes every rule type.
InitDead ==
    /\ users = UsersTable(NoUser)
    /\ approvers = <<>>
    /\ expenses = <<>>
    /\ approvals = <<>>
    /\ approval_rules = <<>>
    /\ ruleTypeCheck = FALSE
    /\ procs = [p \in Procs |-> IdleProc]
    /\ rateCache = [pr \in Pairs |-> NoEntry]
    /\ now = 0
    /\ conv = NoConv
    /\ uploads = <<>>

\* Expenses are submitted while the admin adds and removes approvers and sets
\* rules, and the approvers decide.  One request at a time.
NextDead ==
    \/ /\ Len(expenses) < MaxExpenses + 1
       /\ \E u \in {"e1", "a1"} :
            SubmitExpense(1, u, 12500, "USD", FALSE, OracleDown, "none")
    \/ \E s \in 1..2 : AddApprover(1, IF s = 1 THEN "m1" ELSE "m2", "finance", s)
    \/ \E id \in 1..(Len(approvers) + 1) : RemoveApprover(1, id)
    \/ \E r \in {i \in RuleInputs : i.ruleConfig.required_percentage = 50} :
            SetApprovalRule(1, r.ruleType, r.ruleConfig)
    \/ Begin(1)
    \/ Step(1)

SpecDead == InitDead /\ [][NextDead]_vars

\* ------------------------------------------------------ money and receipts
\* e1 reports to m1, m2 is the finance approver and the percentage rule of the
\* guide is active.
InitMoney ==
    /\ users = UsersTable("m1")
    /\ approvers = <<ApproverRow("m2", "finance", 1, TRUE)>>
    /\ expenses = <<>>
    /\ approvals = <<>>
    /\ approval_rules = <<GuideRule>>
    /\ ruleTypeCheck = FALSE
    /\ procs = [p \in Procs |-> IdleProc]
    /\ rateCache = [pr \in Pairs |-> NoEntry]
    /\ now = 0
    /\ conv = NoConv
    /\ uploads = <<>>

\* Amounts of a request, in thousandths; 0 stands for every amount the
\* validation turns down.
Amounts == {0, 4, 500, 12345}

\* Where a query of submitExpense can fail.
Faults == {"none", "beforeCommit", "afterCommit"}

\* e1 submits expenses in several currencies, with and without a receipt, while
\* the rate service answers or not, queries fail or not and time passes, which
\* nothing looks at once the expense is stored; the approvers then decide.  One
\* request at a time.
NextMoney ==
    \/ /\ Len(expenses) < MaxExpenses
       /\ \E amount \in Amounts, currency \in {"USD", "eur"}, file \in BOOLEAN,
             oracle \in {OracleDown, Market(1100, 160000, 7)}, fault \in Faults :
            /\ file => Len(uploads) < MaxUploads
            /\ SubmitExpense(1, "e1", amount, currency, file, oracle, fault)
    \/ /\ now < MaxTicks * HalfHour
       /\ expenses = <<>>
       /\ Tick
    \/ Begin(1)
    \/ Step(1)

SpecMoney == InitMoney /\ [][NextMoney]_vars

\* ---------------------------------------------------------- conversions
\* Calls of convertCurrency while time passes.
NextRates ==
    \/ \E amount \in {0, 500, 12345}, from \in Currencies, to \in Currencies,
          oracle \in Oracles :
            ConvertCurrency(amount, from, to, oracle)
    \/ /\ now < MaxTicks * HalfHour
       /\ Tick

SpecRates == InitMoney /\ [][NextRates]_vars

\* ------------------------------------------------------- concurrent rules
\* No rule is set; the table of the rules has the constraint of the schema or
\* takes every rule type.
InitRules ==
    /\ users = UsersTable("m1")
    /\ approvers = <<>>
    /\ expenses = <<>>
    /\ approvals = <<>>
    /\ approval_rules = <<>>
    /\ ruleTypeCheck \in BOOLEAN
    /\ procs = [p \in Procs |-> IdleProc]
    /\ rateCache = [pr \in Pairs |-> NoEntry]
    /\ now = 0
    /\ conv = NoConv
    /\ uploads = <<>>

\* The requests between their query and their INSERT.
Inserting == {p \in Procs : procs[p].pc \in {"ruleDeactivate", "ruleInsert"}}

\* Admins set rules concurrently.
NextRules ==
    \E p \in Procs :
        \/ /\ Len(approval_rules) + Cardinality(Inserting) < MaxRules + 1
           /\ \E r \in RuleInputs : SetRuleExisting(p, r.ruleType, r.ruleConfig)
        \/ SetRuleDeactivate(p)
        \/ SetRuleInsert(p)
        \/ Return(p)

SpecRules == InitRules /\ [][NextRules]_vars

\* ------------------------------------------- removal during a submission
\* e1 reports to m1; m2 and a1 are the approvers of the company.
InitRemove ==
    /\ users = UsersTable("m1")
    /\ approvers = <<ApproverRow("m2", "finance", 1, TRUE), ApproverRow("a1", "ceo", 2, TRUE)>>
    /\ expenses = <<>>
    /\ approvals = <<>>
    /\ approval_rules = <<>>
    /\ ruleTypeCheck = TRUE
    /\ procs = [p \in Procs |-> IdleProc]
    /\ rateCache = [pr \in Pairs |-> NoEntry]
    /\ now = 0
    /\ conv = NoConv
    /\ uploads = <<>>

\* The submissions that have not committed yet.
Submitting == {p \in Procs : procs[p].pc = "submitCommit"}

\* The admin removes approvers while users submit expenses.
NextRemove ==
    \E p \in Procs :
        \/ \E id \in 1..(Len(approvers) + 1) : RemoveCount(p, id)
        \/ RemoveUpdate(p)
        \/ /\ Len(expenses) + Cardinality(Submitting) < MaxExpenses + 1
           /\ \E u \in {"e1", "m1"} : SubmitChain(p, u)
        \/ SubmitCommit(p)
        \/ Return(p)

SpecRemove == InitRemove /\ [][NextRemove]_vars

\* ------------------------------------------------------------ reading
\* e1 reports to m1, m2 and a1 are the approvers of the company and the
\* percentage rule of the guide is active or not.
InitRead ==
    /\ users = UsersTable("m1")
    /\ approvers = <<ApproverRow("m2", "finance", 1, TRUE), ApproverRow("a1", "ceo", 2, TRUE)>>
    /\ expenses = <<>>
    /\ approvals = <<>>
    /\ approval_rules \in {<<>>, <<GuideRule>>}
    /\ ruleTypeCheck = FALSE
    /\ procs = [p \in Procs |-> IdleProc]
    /\ rateCache = [pr \in Pairs |-> NoEntry]
    /\ now = 0
    /\ conv = NoConv
    /\ uploads = <<>>

\* Users submit expenses, approvers decide, and everybody reads.  One request at
\* a time.
NextRead ==
    \/ \E u \in Users : PlainSubmit(1, u)
    \/ Begin(1)
    \/ Step(1)
    \/ \E u \in Users : GetPendingApprovals(1, u)
    \/ \E u \in Users, e \in 1..(Len(expenses) + 1) : GetExpenseById(1, u, e)
    \/ \E u \in Users, e \in 1..(Len(expenses) + 1) : GetApprovalHistory(1, u, e)

SpecRead == InitRead /\ [][NextRead]_vars

\* ------------------------------------------------------------ user runs
\* The users the admin manages.
Managed == {"m1", "m2", "a1"}

\* The admin a1 assigns managers, changes roles, deactivates users and
\* configures approvers.  One request at a time.
NextUsers ==
    \/ \E id \in Managed, m \in Managed \cup {"e1", NoUser} : AssignManager(1, "a1", id, m)
    \/ \E id \in Managed, r \in {"employee", "manager", "ceo"} :
            UpdateUserRole(1, "a1", id, r)
    \/ \E id \in {"m2", "a1"} : DeleteUser(1, "a1", id)
    \/ \E u \in {"m1", "m2"}, s \in 1..2 : AddApprover(1, u, "finance", s)
    \/ Return(1)

SpecUsers == InitConfig /\ [][NextUsers]_vars

\* ------------------------------------------------------------ role runs
\* e1 submits, the approvers decide, and the admin a1 changes the roles of m1
\* and m2 in between.  One request at a time.
NextRoles ==
    \/ PlainSubmit(1, "e1")
    \/ \E id \in {"m1", "m2"}, r \in {"employee", "manager"} : UpdateUserRole(1, "a1", id, r)
    \/ Begin(1)
    \/ Step(1)

SpecRoles == InitRead /\ [][NextRoles]_vars

\* =================================================================== claims
SlotsOf(e) == {i \in DOMAIN approvals : approvals[i].expense_id = e}

\* The sequences below slot i, on its expense, whose slot is not approved.
LowerNotApproved(i) ==
    {approvals[j].sequence : j \in {k \in SlotsOf(approvals[i].expense_id) :
        approvals[k].sequence < approvals[i].sequence /\ approvals[k].status # "approved"}}

\* Request p has just been answered, in this step.
Answered(p) == procs[p].pc # "done" /\ procs'[p].pc = "done"

\* C1, as stated: an approve succeeds only if every lower slot of the expense is
\* approved, and an approve on a slot with a lower slot that is not approved is
\* answered with the out-of-order error naming the lowest such sequence.
C1_AsStated ==
    \A p \in Procs :
        (procs[p].pc = "done" /\ procs[p].op = "approve"
            /\ procs[p].id \in DOMAIN approvals) =>
            LET lower == LowerNotApproved(procs[p].id) IN
            /\ procs[p].resp.code = 200 => lower = {}
            /\ lower # {} => /\ procs[p].resp.error = "OutOfOrderApproval"
                             /\ procs[p].resp.detail = Min(lower)

\* C1, amended: an approve by the assigned approver of a pending slot of a
\* pending expense succeeds only if every lower slot of the expense is approved;
\* otherwise it is answered with the out-of-order error naming the lowest lower
\* sequence that is not approved, and no slot and no expense changes.
C1_OutOfOrder ==
    [][\A p \in Procs :
        (Answered(p) /\ procs'[p].op = "approve"
            /\ procs'[p].id \in DOMAIN approvals
            /\ approvals[procs'[p].id].approver_id = procs'[p].userId
            /\ approvals[procs'[p].id].status = "pending"
            /\ expenses[approvals[procs'[p].id].expense_id].status = "pending") =>
            LET lower == LowerNotApproved(procs'[p].id) IN
            /\ procs'[p].resp.code = 200 => lower = {}
            /\ lower = {} => procs'[p].resp.code = 200
            /\ lower # {} => /\ procs'[p].resp.code = 400
                             /\ procs'[p].resp.error = "OutOfOrderApproval"
                             /\ procs'[p].resp.detail = Min(lower)
                             /\ approvals' = approvals
                             /\ expenses' = expenses]_vars

\* C1 witness: the approver of the third slot asked first, and was told that
\* sequence 1 must be approved first.
C1_Witness ==
    \E p \in Procs :
        /\ procs[p].pc = "done" /\ procs[p].op = "approve"
        /\ procs[p].resp.error = "OutOfOrderApproval" /\ procs[p].resp.detail = 1
        /\ procs[p].id \in DOMAIN approvals
        /\ approvals[procs[p].id].sequence = 3
        /\ approvals[procs[p].id].approver_id = procs[p].userId

\* C2: once an expense is approved or rejected, its status never changes again.
C2_ExpenseMonotonic ==
    [][\A e \in DOMAIN expenses :
        expenses[e].status # "pending" => expenses'[e].status = expenses[e].status]_vars

\* C3: once a slot is approved or rejected, its status never changes again.
C3_SlotImmutable ==
    [][\A i \in DOMAIN approvals :
        approvals[i].status # "pending" => approvals'[i].status = approvals[i].status]_vars

\* C4: the decisions on one expense are serialized; in particular no two
\* requests on the same slot are both answered with success.
C4_OneDecisionPerSlot ==
    \A p, q \in Procs :
        (p # q /\ procs[p].pc = "done" /\ procs[q].pc = "done"
            /\ procs[p].op \in {"approve", "reject"} /\ procs[q].op \in {"approve", "reject"}
            /\ procs[p].id = procs[q].id) =>
            ~(procs[p].resp.code = 200 /\ procs[q].resp.code = 200)

\* C5: the commit of a reject sets the slot to rejected with the actor's comment,
\* every other pending slot of the expense to rejected with the cascade comment
\* and the expense to rejected; approved slots and other expenses stay as they
\* are.
C5_RejectCascade ==
    [][\A p \in Procs :
        (Answered(p) /\ procs'[p].op = "reject" /\ procs'[p].resp.code = 200) =>
            LET id == procs[p].id
                e == approvals[id].expense_id
            IN /\ approvals[id].approver_id = procs[p].userId
               /\ approvals'[id].status = "rejected"
               /\ approvals'[id].comments = procs[p].comments
               /\ ~CommentMissing(procs[p].comments)
               /\ expenses'[e].status = "rejected"
               /\ \A j \in DOMAIN approvals \ {id} :
                    IF approvals[j].expense_id = e /\ approvals[j].status = "pending"
                    THEN /\ approvals'[j].status = "rejected"
                         /\ approvals'[j].comments = CascadeComment
                    ELSE approvals'[j] = approvals[j]
               /\ \A x \in DOMAIN expenses \ {e} : expenses'[x] = expenses[x]]_vars

\* C5 witness: the second of three approvers rejected after the first approved:
\* the first slot is still approved, the third carries the cascade comment.
C5_Witness ==
    \E p \in Procs :
        /\ procs[p].pc = "done" /\ procs[p].op = "reject" /\ procs[p].resp.code = 200
        /\ approvals[procs[p].id].sequence = 2
        /\ approvals[procs[p].id].comments = "missing receipt"
        /\ \E i, j \in SlotsOf(approvals[procs[p].id].expense_id) :
            /\ approvals[i].sequence = 1 /\ approvals[i].status = "approved"
            /\ approvals[j].sequence = 3 /\ approvals[j].status = "rejected"
            /\ approvals[j].comments = CascadeComment
        /\ expenses[approvals[procs[p].id].expense_id].status = "rejected"

ApprovedOf(e) == {i \in SlotsOf(e) : approvals[i].status = "approved"}

ActiveRules == {approval_rules[r] : r \in {k \in DOMAIN approval_rules :
                                            approval_rules[k].is_active}}

\* (approved slots / slots) * 100 >= P on expense e
ThresholdMet(e, P) ==
    P >= 1 /\ Cardinality(ApprovedOf(e)) * 100 >= P * Cardinality(SlotsOf(e))

\* A slot of expense e assigned to user u is approved.
ApprovedBy(e, u) == \E i \in ApprovedOf(e) : approvals[i].approver_id = u

\* The rule evaluator of the design on expense e: TERMINATE_APPROVED for a
\* percentage rule whose threshold "percentage" is met on the actual slots, for a
\* specific_approver rule whose approver has approved, for a hybrid rule when
\* both hold.
TerminateApproved(rule, e) ==
    CASE rule.rule_type = "percentage" -> ThresholdMet(e, rule.rule_config.percentage)
      [] rule.rule_type = "specific_approver" -> ApprovedBy(e, rule.rule_config.approver_id)
      [] rule.rule_type = "hybrid" ->
            /\ ThresholdMet(e, rule.rule_config.percentage)
            /\ ApprovedBy(e, rule.rule_config.special_approver_id)
      [] OTHER -> FALSE

\* The slots of e rejected with a comment of an actor: not empty, not the
\* cascade comment.
ActorRejected(e) ==
    {i \in SlotsOf(e) : approvals[i].status = "rejected"
                        /\ approvals[i].comments \notin {Null, "", " ", CascadeComment}}

\* C6: a rejected expense has exactly one slot rejected with an actor's comment,
\* and each other slot is approved or rejected with the cascade comment.
C6_RejectedShape ==
    \A e \in DOMAIN expenses :
        expenses[e].status = "rejected" =>
            /\ Cardinality(ActorRejected(e)) = 1
            /\ \A i \in SlotsOf(e) \ ActorRejected(e) :
                \/ approvals[i].status = "approved"
                \/ approvals[i].status = "rejected" /\ approvals[i].comments = CascadeComment

\* C7: an approved expense has all its slots approved, or an active rule
\* terminates it as approved (by the threshold the rule stores under either
\* key, "percentage" or "required_percentage").
C7_ApprovedShape ==
    \A e \in DOMAIN expenses :
        expenses[e].status = "approved" =>
            \/ SlotsOf(e) = ApprovedOf(e)
            \/ \E rule \in ActiveRules :
                \/ TerminateApproved(rule, e)
                \/ rule.rule_type = "percentage"
                   /\ ThresholdMet(e, rule.rule_config.required_percentage)

\* An approve was answered with success and nothing has happened since.
Approved(p) == procs[p].pc = "done" /\ procs[p].op = "approve" /\ procs[p].resp.code = 200

RejectAnswered(p, e) ==
    /\ Answered(p) /\ procs'[p].op = "reject" /\ procs'[p].resp.code = 200
    /\ procs'[p].id \in DOMAIN approvals
    /\ approvals[procs'[p].id].approver_id = procs'[p].userId
    /\ approvals[procs'[p].id].expense_id = e

\* C12: an expense or a slot gets the status rejected only in the step that
\* answers a successful reject by the assigned approver of a slot of that
\* expense; no other operation writes rejected, a new row included.
C12_RejectedOnlyByReject ==
    [][/\ \A e \in DOMAIN expenses' :
            (expenses'[e].status = "rejected"
                /\ (e \in DOMAIN expenses => expenses[e].status # "rejected")) =>
                \E p \in Procs : RejectAnswered(p, e)
       /\ \A i \in DOMAIN approvals' :
            (approvals'[i].status = "rejected"
                /\ (i \in DOMAIN approvals => approvals[i].status # "rejected")) =>
                \E p \in Procs : RejectAnswered(p, approvals'[i].expense_id)]_vars

\* C12 witness: the first approver of a chain of two turned the expense down
\* after an approval rule had been configured.
C12_Witness ==
    \E p \in Procs :
        /\ procs[p].pc = "done" /\ procs[p].op = "reject" /\ procs[p].resp.code = 200
        /\ approvals[procs[p].id].sequence = 1
        /\ approvals[procs[p].id].status = "rejected"
        /\ Cardinality(SlotsOf(approvals[procs[p].id].expense_id)) = 2
        /\ expenses[approvals[procs[p].id].expense_id].status = "rejected"
        /\ ActiveRules # {}

\* C13: an approve or a reject of a slot by a user other than its assigned
\* approver is answered 403, not the assigned approver, and changes no slot and
\* no expense.
C13_NotAssigned ==
    [][\A p \in Procs :
        (Answered(p) /\ procs'[p].op \in {"approve", "reject"}
            /\ procs'[p].id \in DOMAIN approvals
            /\ approvals[procs'[p].id].approver_id # procs'[p].userId) =>
            /\ procs'[p].resp.code = 403
            /\ procs'[p].resp.error = "NotAssignedApprover"
            /\ approvals' = approvals
            /\ expenses' = expenses]_vars

\* C14: an approve by the assigned approver of a slot that is already approved
\* or rejected is answered with the slot-already-decided error, and every slot
\* and expense stays as it was.
C14_RepeatedApprove ==
    [][\A p \in Procs :
        (Answered(p) /\ procs'[p].op = "approve"
            /\ procs'[p].id \in DOMAIN approvals
            /\ approvals[procs'[p].id].approver_id = procs'[p].userId
            /\ approvals[procs'[p].id].status # "pending") =>
            /\ procs'[p].resp.code = 400
            /\ procs'[p].resp.error = "SlotAlreadyDecided"
            /\ approvals' = approvals
            /\ expenses' = expenses]_vars

\* C14 witness: the first approver of a chain of two approved, and approved
\* again while the expense still waited for the second.
C14_Witness ==
    \E p \in Procs :
        /\ procs[p].pc = "done" /\ procs[p].op = "approve"
        /\ procs[p].resp.error = "SlotAlreadyDecided"
        /\ procs[p].id \in DOMAIN approvals
        /\ approvals[procs[p].id].approver_id = procs[p].userId
        /\ approvals[procs[p].id].status = "approved"
        /\ expenses[approvals[procs[p].id].expense_id].status = "pending"

\* A comment that is absent, empty or blank, told without the code's test.
Blank(comments) == comments \in {Null, "", " "}

\* C15: a reject whose comment is absent, empty or blank is answered with the
\* comment-required error and changes nothing; and every slot rejected with a
\* comment other than the cascade's carries a comment that is not blank.
C15_CommentRequired ==
    [][/\ \A p \in Procs :
            (Answered(p) /\ procs'[p].op = "reject" /\ Blank(procs'[p].comments)
                /\ procs[p].pc = "idle") =>
                /\ procs'[p].resp.code = 400
                /\ procs'[p].resp.error = "CommentRequired"
                /\ approvals' = approvals
                /\ expenses' = expenses
       /\ \A p \in Procs : procs'[p].pc \in {"r_upd", "r_exp", "r_scan", "r_casc", "r_commit"}
                                => ~Blank(procs'[p].comments)
       /\ \A i \in DOMAIN approvals' :
            (approvals'[i].status = "rejected" /\ approvals'[i].comments # CascadeComment)
                => ~Blank(approvals'[i].comments)]_vars

\* C15 witness: the assigned approver of a pending slot sent a reject with a
\* blank comment and got the comment-required error.
C15_Witness ==
    \E p \in Procs :
        /\ procs[p].pc = "done" /\ procs[p].op = "reject"
        /\ procs[p].resp.error = "CommentRequired"
        /\ procs[p].comments = " "
        /\ procs[p].id \in DOMAIN approvals
        /\ approvals[procs[p].id].approver_id = procs[p].userId
        /\ approvals[procs[p].id].status = "pending"

\* C16: in every committed state, whatever the interleaving, no expense has an
\* approved slot above a slot that is still pending.
C16_NoApprovedAbovePending ==
    \A i, j \in DOMAIN approvals :
        (approvals[i].expense_id = approvals[j].expense_id
            /\ approvals[j].sequence < approvals[i].sequence
            /\ approvals[i].status = "approved") =>
            approvals[j].status # "pending"

\* C16 witness: two requests overlapped, and the second slot is approved above
\* a first slot that was approved and then rejected.
C16_Witness ==
    \E i, j \in DOMAIN approvals :
        /\ approvals[i].expense_id = approvals[j].expense_id
        /\ approvals[j].sequence = 1 /\ approvals[i].sequence = 2
        /\ approvals[i].status = "approved" /\ approvals[j].status = "rejected"
        /\ \A p \in Procs : procs[p].pc = "done"

\* C13 with the one case left out in which it fails, a reject without a comment:
\* the comment is checked before the approver.
C13_NotAssignedWithComment ==
    [][\A p \in Procs :
        (Answered(p) /\ procs'[p].op \in {"approve", "reject"}
            /\ procs'[p].id \in DOMAIN approvals
            /\ ~(procs'[p].op = "reject" /\ Blank(procs'[p].comments))
            /\ approvals[procs'[p].id].approver_id # procs'[p].userId) =>
            /\ procs'[p].resp.code = 403
            /\ procs'[p].resp.error = "NotAssignedApprover"
            /\ approvals' = approvals
            /\ expenses' = expenses]_vars

\* C17: the sequence numbers of the slots of every expense are exactly 1..N.
C17_DenseSequences ==
    \A e \in DOMAIN expenses :
        {approvals[i].sequence : i \in SlotsOf(e)} = 1..Cardinality(SlotsOf(e))

ActiveSequences == {approvers[i].sequence : i \in {j \in DOMAIN approvers :
                                                     approvers[j].is_active}}

\* C17 witness: a submitter without a manager, approvers configured at the
\* sequences 1 and 3 and a removed one at 2: two slots, numbered 1 and 2.
C17_Witness ==
    \E e \in DOMAIN expenses :
        /\ users[expenses[e].user_id].manager_id = NoUser
        /\ ActiveSequences = {1, 3}
        /\ \E i \in DOMAIN approvers : ~approvers[i].is_active /\ approvers[i].sequence = 2
        /\ {approvals[i].sequence : i \in SlotsOf(e)} = {1, 2}

\* C18: the slots a submission inserts are one for the submitter's manager, if
\* any, at sequence 1, and then one for each active approvers row whose user is
\* not the manager, in the order of the configured sequences; all are pending.
C18_ChainBuilt ==
    [][Len(expenses') = Len(expenses) + 1 =>
        LET e == Len(expenses')
            managerId == users[expenses'[e].user_id].manager_id
            off == IF managerId # NoUser THEN 1 ELSE 0
            R == {i \in DOMAIN approvers :
                    approvers[i].is_active /\ approvers[i].user_id # managerId}
            new == DOMAIN approvals' \ DOMAIN approvals
        IN /\ \A i \in new : /\ approvals'[i].expense_id = e
                              /\ approvals'[i].status = "pending"
                              /\ approvals'[i].sequence \in 1..Cardinality(new)
           /\ \A i \in DOMAIN approvals : approvals'[i] = approvals[i]
           /\ Cardinality(new) = off + Cardinality(R)
           /\ managerId # NoUser =>
                \E i \in new : /\ approvals'[i].sequence = 1
                               /\ approvals'[i].approver_id = managerId
           /\ \E f \in [R -> new] :
                /\ \A r \in R : /\ approvals'[f[r]].approver_id = approvers[r].user_id
                                 /\ approvals'[f[r]].sequence > off
                /\ \A r1, r2 \in R :
                    approvers[r1].sequence < approvers[r2].sequence =>
                        approvals'[f[r1]].sequence < approvals'[f[r2]].sequence
                /\ \A r1, r2 \in R : r1 # r2 => f[r1] # f[r2]]_vars

\* C18 witness: e1 reports to m1; m1 is also configured, behind m2, and a
\* third row was removed: the chain is m1, then m2.
C18_Witness ==
    \E e \in DOMAIN expenses :
        /\ expenses[e].user_id = "e1"
        /\ \E i, j, k \in DOMAIN approvers :
            /\ approvers[i].is_active /\ approvers[i].user_id = "m1"
            /\ approvers[j].is_active /\ approvers[j].user_id = "m2"
            /\ approvers[j].sequence < approvers[i].sequence
            /\ ~approvers[k].is_active
        /\ Cardinality(SlotsOf(e)) = 2
        /\ \E i, j \in SlotsOf(e) :
            /\ approvals[i].sequence = 1 /\ approvals[i].approver_id = "m1"
            /\ approvals[j].sequence = 2 /\ approvals[j].approver_id = "m2"

\* C19: no user holds more than one slot on the same expense, whatever
\* approvers the admin has configured.
C19_OneSlotPerUser ==
    \A i, j \in DOMAIN approvals :
        (i # j /\ approvals[i].expense_id = approvals[j].expense_id) =>
            approvals[i].approver_id # approvals[j].approver_id

\* C20: no expense has a slot assigned to its submitter, and no approve by the
\* submitter of the expense is answered with success.
C20_NoSelfApproval ==
    /\ \A i \in DOMAIN approvals :
            approvals[i].approver_id # expenses[approvals[i].expense_id].user_id
    /\ \A p \in Procs :
            Approved(p) =>
                procs[p].userId # expenses[approvals[procs[p].id].expense_id].user_id


\* C21: a new expense is marked approved at creation exactly when it got no
\* approval slot and its submitter is an admin; every other new expense is
\* pending.
C21_ApprovedAtCreation ==
    [][Len(expenses') = Len(expenses) + 1 =>
        LET e == Len(expenses')
            slots == {i \in DOMAIN approvals' : approvals'[i].expense_id = e}
        IN expenses'[e].status =
              IF slots = {} /\ users[expenses'[e].user_id].role = "admin"
              THEN "approved" ELSE "pending"]_vars

\* An admin's expense without slots stands approved, its submission just answered.
C21_Witness ==
    \E e \in DOMAIN expenses :
        /\ users[expenses[e].user_id].role = "admin"
        /\ SlotsOf(e) = {}
        /\ expenses[e].status = "approved"
        /\ procs[1].pc = "done" /\ procs[1].op = "submit" /\ procs[1].id = e

\* Expense e, of a submitter who is no admin, is pending without a slot.
Dead(exps, slots, e) ==
    /\ users[exps[e].user_id].role # "admin"
    /\ exps[e].status = "pending"
    /\ \A i \in DOMAIN slots : slots[i].expense_id # e

\* C22: an expense submitted by a user who is no admin, at a time when the chain
\* is empty, is stored pending without slots, and whatever happens next it stays
\* pending and gets no slot.
C22_DeadStaysPending ==
    [][/\ \A e \in DOMAIN expenses :
            Dead(expenses, approvals, e) => Dead(expenses', approvals', e)
       /\ (/\ Len(expenses') = Len(expenses) + 1
           /\ users[expenses'[Len(expenses')].user_id].role # "admin"
           /\ users[expenses'[Len(expenses')].user_id].manager_id = NoUser
           /\ \A i \in DOMAIN approvers : ~approvers[i].is_active)
          => Dead(expenses', approvals', Len(expenses'))]_vars

\* The first expense is stuck while an approver is active, a rule is set and a
\* slot of a later expense has been approved.
C22_Witness ==
    /\ Len(expenses) = 2
    /\ Dead(expenses, approvals, 1)
    /\ \E i \in DOMAIN approvers : approvers[i].is_active
    /\ \E i \in DOMAIN approval_rules : approval_rules[i].is_active
    /\ \E i \in DOMAIN approvals : approvals[i].status = "approved"


\* A submission is answered in this step.
SubmitStep ==
    procs[1].pc = "idle" /\ procs'[1].pc = "done" /\ procs'[1].op = "submit"

\* C23: a submission that fails after the insert of the expense leaves neither
\* the expense nor a slot behind and its receipt file is deleted; an expense
\* that is stored comes with its whole chain.
C23_SubmissionAtomic ==
    [][/\ (SubmitStep /\ procs'[1].resp.code = 500) =>
            /\ expenses' = expenses
            /\ approvals' = approvals
            /\ procs'[1].body.file => ~uploads'[Len(uploads')]
       /\ Len(expenses') = Len(expenses) + 1 =>
            \E order \in SequenceOrders(approvers) :
                approvals' = approvals \o ChainRows(Len(expenses'),
                    ChainApprovers(users[expenses'[Len(expenses')].user_id].manager_id,
                                   approvers, order))]_vars

\* C24: when the rate service is asked and fails, a pair with a cache entry of
\* any age is converted at the cached rate, and the expense is stored with that
\* amount; a pair without an entry fails with CurrencyUnavailable and the
\* submission stores neither an expense nor a slot.
C24_StaleFallback ==
    [][(/\ SubmitStep
        /\ procs'[1].body.amount > 0
        /\ conv'.called
        /\ conv'.to \notin conv'.response) =>
            LET key == <<conv'.from, conv'.to>> IN
            IF rateCache[key] # NoEntry
            THEN /\ conv'.ok
                 /\ conv'.cents \in ToFixed2(conv'.amount * rateCache[key].rate, 10000)
                 /\ rateCache' = rateCache
                 /\ procs'[1].resp.code = 201 =>
                        expenses'[Len(expenses')].amount = conv'.cents
            ELSE /\ ~conv'.ok
                 /\ procs'[1].resp = Response(400, "CurrencyUnavailable", 0)
                 /\ expenses' = expenses
                 /\ approvals' = approvals]_vars

\* An expense has been stored at a rate fetched more than an hour ago, the
\* service being down.
C24_Witness ==
    /\ conv.source = "stale"
    /\ now - rateCache[<<"EUR", "USD">>].timestamp > CACHE_DURATION
    /\ procs[1].pc = "done" /\ procs[1].op = "submit" /\ procs[1].resp.code = 201
    /\ Len(expenses) = 1
    /\ expenses[1].amount = conv.cents

\* C25: a conversion of a pair whose rate was fetched less than an hour ago uses
\* the cached rate and does not call the rate service; a conversion between
\* equal currencies neither calls the service nor touches the cache.
C25_CacheWithinHour ==
    [][conv' # conv =>
        /\ conv'.from = conv'.to => (~conv'.called /\ rateCache' = rateCache)
        /\ (/\ conv'.from # conv'.to
            /\ conv'.amount > 0
            /\ rateCache[<<conv'.from, conv'.to>>] # NoEntry
            /\ now - rateCache[<<conv'.from, conv'.to>>].timestamp < CACHE_DURATION) =>
                /\ ~conv'.called
                /\ conv'.ok
                /\ conv'.cents \in ToFixed2(
                       conv'.amount * rateCache[<<conv'.from, conv'.to>>].rate, 10000)
                /\ rateCache' = rateCache]_vars

\* A conversion was served from the cache half an hour after the fetch.
C25_Witness ==
    /\ conv.source = "cache"
    /\ ~conv.called
    /\ now - rateCache[<<conv.from, conv.to>>].timestamp = HalfHour

\* C26: after a fetch for a base currency, a conversion from that base to any
\* currency of the answer, within the hour, does not call the rate service.
C26_AllRatesCached ==
    [][(/\ conv.source = "oracle"
        /\ conv' # conv
        /\ conv'.from = conv.from
        /\ conv'.to \in conv.response
        /\ conv'.amount > 0
        /\ now - rateCache[<<conv.from, conv.to>>].timestamp < CACHE_DURATION) =>
            ~conv'.called]_vars

\* C27: the original amount is stored exactly as submitted and the original
\* currency as submitted, uppercased; no step changes the original amount, the
\* original currency or the converted amount of a stored expense.
C27_OriginalExact ==
    [][/\ (SubmitStep /\ Len(expenses') = Len(expenses) + 1) =>
            /\ expenses'[Len(expenses')].original_amount * 10 = procs'[1].body.amount
            /\ expenses'[Len(expenses')].original_currency = Upper(procs'[1].body.currency)
       /\ \A e \in DOMAIN expenses :
            /\ expenses'[e].original_amount = expenses[e].original_amount
            /\ expenses'[e].original_currency = expenses[e].original_currency
            /\ expenses'[e].amount = expenses[e].amount]_vars

\* C28: the converted and the original amount of every stored expense are above 0.
C28_PositiveAmounts ==
    \A e \in DOMAIN expenses :
        expenses[e].amount > 0 /\ expenses[e].original_amount > 0


\* C29: no two active approvers rows have the same sequence, and a call of
\* AddApprover whose sequence an active row has is rejected and inserts nothing.
C29_UniqueActiveSequence ==
    /\ \A i, j \in DOMAIN approvers :
        (i # j /\ approvers[i].is_active /\ approvers[j].is_active)
            => approvers[i].sequence # approvers[j].sequence
    /\ (/\ procs[1].pc = "done"
        /\ procs[1].op = "addApprover"
        /\ procs[1].resp.error = "SequenceConflict") => procs[1].id = 0


\* C30: a company has at most one active rule of each type, also after
\* concurrent calls of SetApprovalRule; setting a rule deactivates the previous
\* rule of its type and changes no rule of another type.
C30_OneActiveRule ==
    [][/\ \A ty \in validRuleTypes :
            Cardinality(ExistingRules(approval_rules', ty)) <= 1
       /\ \A i \in DOMAIN approval_rules :
            approval_rules'[i] # approval_rules[i] =>
                /\ approval_rules'[i] = [approval_rules[i] EXCEPT !.is_active = FALSE]
                /\ \E p \in Procs :
                    /\ procs[p].pc = "ruleDeactivate"
                    /\ procs[p].rule[1] = approval_rules[i].rule_type]_vars


\* A call of updateApproverSequence is answered in this step, and it named an
\* existing row and a sequence of 1 or more other than the row's own.
UpdateStep ==
    /\ procs[1].pc = "idle"
    /\ procs'[1].pc = "done"
    /\ procs'[1].op = "updateSequence"
    /\ procs'[1].resp.error \notin {"InvalidSequence", "NotFound", "Unchanged"}

\* C31: UpdateApproverSequence(a, n) ends with a at n; when another active row b
\* held n, b ends at a's previous sequence; all other rows are unchanged.
C31_AtomicSwap ==
    [][UpdateStep =>
        LET a == procs'[1].id
            old == approvers[a].sequence
            n == approvers'[a].sequence
            holders == {b \in DOMAIN approvers :
                            b # a /\ approvers[b].is_active /\ approvers[b].sequence = n}
        IN /\ n # old
           /\ Len(approvers') = Len(approvers)
           /\ IF holders = {}
              THEN approvers' = [approvers EXCEPT ![a].sequence = n]
              ELSE \E b \in holders :
                     approvers' = [approvers EXCEPT ![a].sequence = n,
                                                    ![b].sequence = old]]_vars


\* C32: a removal is refused, the row staying as it is, whenever the user of the
\* row holds a pending slot; a removal that is accepted sets the row inactive,
\* deletes no row and no slot, and leaves the user without a pending slot, also
\* while submissions run.
C32_RemoveGuarded ==
    [][\A p \in Procs :
        (/\ procs[p].pc \in {"idle", "removeUpdate"}
         /\ procs'[p].pc = "done"
         /\ procs'[p].op = "removeApprover"
         /\ procs'[p].id \in DOMAIN approvers) =>
            LET id == procs'[p].id
                u == approvers[id].user_id
            IN /\ PendingCount(approvals, u) > 0 =>
                    (procs'[p].resp.code = 400 /\ approvers' = approvers)
               /\ procs'[p].resp.code = 200 =>
                    /\ approvers' = [approvers EXCEPT ![id].is_active = FALSE]
                    /\ approvals' = approvals
                    /\ PendingCount(approvals', u) = 0]_vars


\* C33: ListPendingForMe returns exactly the slots that are assigned to the
\* actor, are pending, belong to a pending expense and have no slot of lower
\* sequence on the same expense that is not approved.
C33_ListPending ==
    (procs[1].pc = "done" /\ procs[1].op = "getPending") =>
        procs[1].rows =
            {i \in DOMAIN approvals :
                /\ approvals[i].approver_id = procs[1].userId
                /\ approvals[i].status = "pending"
                /\ expenses[approvals[i].expense_id].status = "pending"
                /\ LowerNotApproved(i) = {}}

\* m2 is shown the second slot of an expense, the first one being approved,
\* while the third slot is shown to nobody.
C33_Witness ==
    /\ procs[1].pc = "done" /\ procs[1].op = "getPending" /\ procs[1].userId = "m2"
    /\ \E i \in procs[1].rows : approvals[i].sequence = 2
    /\ \E j \in DOMAIN approvals : approvals[j].status = "pending" /\ approvals[j].sequence = 3

\* C34: GetExpense grants access to an admin; to a manager for the expenses of a
\* direct report, for the expenses on which the manager holds a slot and for
\* their own; to an employee for their own; and denies every other request.
C34_ExpenseAccess ==
    (procs[1].pc = "done" /\ procs[1].op = "getExpense"
        /\ procs[1].id \in DOMAIN expenses) =>
        LET u == procs[1].userId
            e == procs[1].id
            granted == \/ users[u].role = "admin"
                       \/ /\ users[u].role = "manager"
                          /\ \/ users[expenses[e].user_id].manager_id = u
                             \/ \E i \in SlotsOf(e) : approvals[i].approver_id = u
                             \/ expenses[e].user_id = u
                       \/ users[u].role = "employee" /\ expenses[e].user_id = u
        IN procs[1].resp.code = 200 <=> granted

\* C35: GetApprovalHistory and GetExpense grant access to the same actors for
\* the same expenses.
C35_SameAccess ==
    (procs[1].pc = "done" /\ procs[1].id \in DOMAIN expenses) =>
        /\ procs[1].op = "getExpense" =>
            (procs[1].resp.code = 200 <=> HistoryAccess(procs[1].userId, procs[1].id))
        /\ procs[1].op = "getHistory" =>
            (procs[1].resp.code = 200 <=> ExpenseAccess(procs[1].userId, procs[1].id))


\* C38: with no other decision in flight, an approve by an actor succeeds
\* exactly on the slots that ListPendingForMe returns for that actor.
C38_ListedIffApprovable ==
    [][(procs[1].pc # "done" /\ procs'[1].pc = "done" /\ procs'[1].op = "approve") =>
        (procs'[1].resp.code = 200
            <=> procs'[1].id \in availableApprovals(procs'[1].userId))]_vars

\* An approve of a listed slot has been answered 200 ...
C38_Witness ==
    /\ procs[1].pc = "done" /\ procs[1].op = "approve" /\ procs[1].resp.code = 200
    /\ approvals[procs[1].id].status = "approved"
    /\ approvals[procs[1].id].sequence = 2

\* C39: the assigned approver of a pending slot on a pending expense can reject
\* it with a comment whatever the slots below it are: the slot is rejected, the
\* expense is rejected and every other pending slot of the expense is rejected
\* with it; while a slot below is pending the slot is not listed by
\* ListPendingForMe.
C39_RejectNotGated ==
    [][(procs[1].pc # "done" /\ procs'[1].pc = "done" /\ procs'[1].op = "reject") =>
        LET id == procs'[1].id
            u == procs'[1].userId
            comments == IF procs[1].pc = "idle" THEN procs'[1].comments
                        ELSE procs[1].comments
        IN (/\ id \in DOMAIN approvals
            /\ approvals[id].approver_id = u
            /\ approvals[id].status = "pending"
            /\ expenses[approvals[id].expense_id].status = "pending"
            /\ ~Blank(comments)) =>
                LET e == approvals[id].expense_id IN
                /\ procs'[1].resp.code = 200
                /\ approvals'[id].status = "rejected"
                /\ approvals'[id].comments = comments
                /\ expenses'[e].status = "rejected"
                /\ \A i \in SlotsOf(e) :
                      approvals[i].status = "pending" => approvals'[i].status = "rejected"
                /\ (\E i \in SlotsOf(e) :
                        /\ approvals[i].sequence < approvals[id].sequence
                        /\ approvals[i].status = "pending")
                   => id \notin availableApprovals(u)]_vars

\* The third slot of an expense was rejected while the first two were pending,
\* and they were rejected with it.
C39_Witness ==
    /\ procs[1].pc = "done" /\ procs[1].op = "reject" /\ procs[1].resp.code = 200
    /\ approvals[procs[1].id].sequence = 3
    /\ expenses[approvals[procs[1].id].expense_id].status = "rejected"
    /\ \A i \in SlotsOf(approvals[procs[1].id].expense_id) :
          approvals[i].sequence < 3 =>
              (approvals[i].status = "rejected" /\ approvals[i].comments = CascadeComment)


\* The users above u in the manager relation, following at most 4 links.
RECURSIVE Above(_, _)
Above(u, n) ==
    IF n = 0 \/ users[u].manager_id = NoUser THEN {}
    ELSE {users[u].manager_id} \cup Above(users[u].manager_id, n - 1)

\* C36: the manager relation has no cycle of any length, and an assignment that
\* would close a cycle is rejected without changing a link.
C36_NoManagerCycle ==
    [][/\ \A u \in Users : u \notin Above(u, Cardinality(Users))'
       /\ (/\ procs[1].pc = "idle"
           /\ procs'[1].pc = "done"
           /\ procs'[1].op = "assignManager"
           /\ procs'[1].resp.code # 200) => users' = users]_vars

\* C37: the user of every active approvers row is active and has the role
\* manager or admin.
C37_ApproversQualified ==
    \A i \in DOMAIN approvers :
        approvers[i].is_active =>
            /\ users[approvers[i].user_id].is_active
            /\ users[approvers[i].user_id].role \in {"manager", "admin"}


\* A decision of slot i by its assigned approver is accepted: the request
\* passes the route's role check and the checks of the handler, and no slot
\* below it is waiting.
Decidable(i) ==
    /\ approvals[i].status = "pending"
    /\ LowerNotApproved(i) = {}
    /\ requireManagerOrAdmin(approvals[i].approver_id)
    /\ DecideValidation(i, approvals[i].approver_id) = "ok"

\* C40: a pending expense with at least one slot always has a pending slot whose
\* lower slots are all approved and whose assigned approver's decision is
\* accepted, so that it is approved or rejected once its approvers act.
C40_AlwaysDecidable ==
    \A e \in DOMAIN expenses :
        (expenses[e].status = "pending" /\ SlotsOf(e) # {}) =>
            \E i \in SlotsOf(e) : Decidable(i)

====
